---- MODULE Spec2Model ----
(***************************************************************************)
(* A model of the RAG pipeline of nexus-ai: the vector stores (internal,   *)
(* Pinecone, Qdrant, Weaviate), the Retriever, the document ingestion      *)
(* service, the chunker, the embedding providers and RagPipeline.query.    *)
(*                                                                         *)
(* Conventions.  A string of the program is a sequence of one-character    *)
(* strings.  A similarity score is an integer number of hundredths         *)
(* (0.75 is 75).  A record id `${documentId}-chunk-${index}` is the pair   *)
(* <<documentId, index>>.  A value that is `undefined` in the program is   *)
(* Undefined.                                                              *)
(***************************************************************************)
EXTENDS Integers, Sequences, FiniteSets, TLC

VARIABLES
    backend,      \* which VectorStore implementation the services hold
    documents,    \* prisma.document: documentId -> row
    chunkTable,   \* prisma.chunk: record id -> row (also the internal store)
    extIndex,     \* the collection held by the Pinecone/Qdrant/Weaviate backend
    last,         \* the last vector-store call and what it returned
    ragConfig,    \* the RagConfig the Retriever was constructed with
    retrieval,    \* the call of Retriever.retrieve and what it returned
    job,          \* DocumentIngestionService: documentId -> state of its ingestion
    chunker,      \* the call of chunkText in progress
    embedder,     \* the call of EmbeddingProvider.embed in progress
    pipeline,     \* the call of RagPipeline.query and what it returned
    truncation,   \* the call of truncateContext and what it returned
    component,    \* an embedding provider or vector store: how it was built, its calls
    router        \* message router: the user agents, the message log, the last call

vars == <<backend, documents, chunkTable, extIndex, last, ragConfig, retrieval,
          job, chunker, embedder, pipeline, truncation, component, router>>

----------------------------------------------------------------------------
(* Bounds of the model *)

MaxChunkIndex == 2      \* chunk indices of the store model are 0..MaxChunkIndex
MaxRecords == 3         \* rows a store holds at most
MaxTopK == 2            \* topK of a search is 1..MaxTopK
MaxBatch == 2           \* records of one upsert call

Undefined == "undefined"
NoVector == <<>>        \* a metadata object without embeddingVector

Users == {"u1", "u2"}
DocIds == {"d1", "d2"}
Owner == [d \in DocIds |-> IF d = "d1" THEN "u1" ELSE "u2"]
Contents == {<<"x">>, <<"y">>}
Backends == {"internal", "pinecone", "qdrant", "weaviate"}
Statuses == {"PROCESSING", "COMPLETED", "FAILED"}

Min(a, b) == IF a < b THEN a ELSE b
Max(a, b) == IF a > b THEN a ELSE b
Range(s) == {s[i] : i \in DOMAIN s}

\* The embedding model: a fixed function from text to a vector.
Embed(text) == IF text = <<"x">> THEN <<1, 0>> ELSE <<1, 1>>
Vecs == {Embed(c) : c \in Contents}

MakeId(documentId, index) == <<documentId, index>>

----------------------------------------------------------------------------
(* cosineSimilarity, in hundredths rounded down *)

Dot(a, b) == IF Len(a) = 0 THEN 0 ELSE
    LET F[i \in 1..Len(a)] == (IF i = 1 THEN 0 ELSE F[i - 1]) + a[i] * b[i]
    IN F[Len(a)]

\* The integer part of the square root of n >= 0, between lo and hi.
RECURSIVE SqrtBetween(_, _, _)
SqrtBetween(n, lo, hi) ==
    IF lo >= hi THEN lo
    ELSE LET mid == (lo + hi + 1) \div 2
         IN IF mid * mid <= n THEN SqrtBetween(n, mid, hi)
            ELSE SqrtBetween(n, lo, mid - 1)

\* dotProduct / (magA * magB), or 0 for vectors of different lengths or of
\* magnitude 0.
CosineSimilarity(a, b) ==
    IF Len(a) # Len(b) THEN 0
    ELSE LET dotProduct == Dot(a, b)
             magA2 == Dot(a, a)
             magB2 == Dot(b, b)
         IN IF magA2 = 0 \/ magB2 = 0 THEN 0
            ELSE LET hundredths ==
                        SqrtBetween((10000 * dotProduct * dotProduct)
                                        \div (magA2 * magB2), 0, 100)
                 IN IF dotProduct >= 0 THEN hundredths ELSE 0 - hundredths

----------------------------------------------------------------------------
(* VectorRecord values the ingestion service builds *)

\* A record as DocumentIngestionService.processDocument builds it: the
\* embedding is that of the content, and the metadata (startChar, endChar,
\* qualityScore, documentName) has no embeddingVector, the one entry
\* InternalVectorStore.search reads.
VectorRecordOf(documentId, index, content) ==
    [id |-> MakeId(documentId, index), documentId |-> documentId,
     chunkIndex |-> index, content |-> content, embedding |-> Embed(content),
     metadata |-> [embeddingVector |-> NoVector]]

\* The chunk indexes of the documents of the store model: d1 has
\* MaxChunkIndex + 1 chunks, d2 has one.
ChunkIndexes(documentId) == IF documentId = "d1" THEN 0..MaxChunkIndex ELSE {0}

\* The batches of one upsert call: records of one document, in index order.
RecordBatches ==
    UNION { UNION { { [k \in 1..n |-> VectorRecordOf(d, idx[k], c[k])] :
                        c \in [1..n -> Contents] } :
                    idx \in { f \in [1..n -> ChunkIndexes(d)] :
                                \A i, j \in 1..n : i < j => f[i] < f[j] } } :
            d \in DocIds, n \in 1..MaxBatch }

----------------------------------------------------------------------------
(* InternalVectorStore *)

\* The positions of the records of a list that have a given id.
PositionsOf(records, id) == { k \in DOMAIN records : records[k].id = id }
FirstOf(records, id) ==
    CHOOSE k \in PositionsOf(records, id) :
        \A m \in PositionsOf(records, id) : k <= m
LastOf(records, id) ==
    CHOOSE k \in PositionsOf(records, id) :
        \A m \in PositionsOf(records, id) : k >= m

\* The row with a given id after prisma.chunk.upsert of each record of a
\* list in order: the first record with that id creates the row when there
\* is none, every later one updates content, chunkIndex and metadata (the
\* documentId of a row is kept), so the row carries those of the last.
ChunkUpsertRow(rows, records, id) ==
    IF PositionsOf(records, id) = {} THEN rows[id]
    ELSE LET r == records[LastOf(records, id)] IN
         [documentId |-> IF id \in DOMAIN rows THEN rows[id].documentId
                         ELSE records[FirstOf(records, id)].documentId,
          chunkIndex |-> r.chunkIndex,
          content |-> r.content,
          metadata |-> r.metadata]

InternalUpsert(rows, records) ==
    [id \in DOMAIN rows \cup { records[k].id : k \in DOMAIN records } |->
        ChunkUpsertRow(rows, records, id)]

\* The documentId of a filter is absent (kind "none") or the object
\* { $in: documentIds } (kind "in").
NoDocFilter == [kind |-> "none", ids |-> {}]
InDocuments(D) == [kind |-> "in", ids |-> D]
\* The filters Retriever.retrieve builds: a userId, and documentId when
\* documentIds is given and not empty.
Filters == [userId : Users,
            documentId : {NoDocFilter} \cup { InDocuments({d}) : d \in DocIds }]

\* The where clause of InternalVectorStore.search: the chunk's document has
\* embeddingStatus COMPLETED, the filter's userId when one is given, and the
\* filter's documentId as its id when one is given.
InternalWhere(docs, rows, id, filter) ==
    LET doc == docs[rows[id].documentId] IN
    /\ doc.embeddingStatus = "COMPLETED"
    /\ (filter.userId # Undefined => doc.userId = filter.userId)
    /\ (filter.documentId.kind # "none" =>
            rows[id].documentId \in filter.documentId.ids)

InternalScore(row, queryEmbedding) ==
    IF row.metadata.embeddingVector # NoVector
    THEN CosineSimilarity(queryEmbedding, row.metadata.embeddingVector)
    ELSE 0

SearchResultOf(id, row, score) ==
    [id |-> id, documentId |-> row.documentId, chunkIndex |-> row.chunkIndex,
     content |-> row.content, score |-> score]

\* The sequences over the ids of S, each once, in an order that
\* results.sort((a, b) => b.score - a.score) can leave them in: the sort is
\* stable and the query has no orderBy, so ties keep an arbitrary order.
SortedByScore(S, score) ==
    { s \in [1..Cardinality(S) -> S] :
        /\ \A i, j \in DOMAIN s : i # j => s[i] # s[j]
        /\ \A i, j \in DOMAIN s : i < j => score[s[i]] >= score[s[j]] }

\* Array.prototype.slice(0, n): the first n elements, and for a negative n
\* all but the last -n.
Slice(s, n) ==
    IF n >= 0 THEN SubSeq(s, 1, Min(n, Len(s)))
    ELSE SubSeq(s, 1, Max(Len(s) + n, 0))

Returned(results) == [ok |-> TRUE, results |-> results]
Thrown == [ok |-> FALSE, results |-> <<>>]

\* The outcomes of InternalVectorStore.search.  findMany(... take: topK * 2)
\* has no orderBy: it returns any topK*2 of the matching rows.  The object
\* { $in: ... } is no operator of the query engine, which is outside this
\* repository: it rejects the query or reads it as a membership test.
InternalSearch(docs, rows, queryEmbedding, topK, filter) ==
    LET matching == { id \in DOMAIN rows : InternalWhere(docs, rows, id, filter) }
        taken == { T \in SUBSET matching :
                     Cardinality(T) = Min(topK * 2, Cardinality(matching)) }
        score == [id \in DOMAIN rows |-> InternalScore(rows[id], queryEmbedding)]
    IN (IF filter.documentId.kind = "in" THEN {Thrown} ELSE {}) \cup
       UNION { { Returned([i \in 1..Min(topK, Len(s)) |->
                    SearchResultOf(s[i], rows[s[i]], score[s[i]])]) :
                 s \in SortedByScore(T, score) } : T \in taken }

InternalDelete(rows, documentId) ==
    [id \in { i \in DOMAIN rows : rows[i].documentId # documentId } |-> rows[id]]

InternalGetStats(rows) == Cardinality(DOMAIN rows)

----------------------------------------------------------------------------
(* PineconeVectorStore, QdrantVectorStore, WeaviateVectorStore *)

PineconeContentLimit == 10000

\* The object each store sends to its backend for one record.
ExternalObject(store, record) ==
    [documentId |-> record.documentId,
     chunkIndex |-> record.chunkIndex,
     content |-> IF store = "pinecone"
                 THEN SubSeq(record.content, 1,
                             Min(PineconeContentLimit, Len(record.content)))
                 ELSE record.content,
     embedding |-> record.embedding,
     metadata |-> record.metadata]

\* index.upsert / client.upsert / collection.data.insertMany: the backend
\* keeps one object per id.
ExternalUpsert(store, index, records) ==
    [id \in DOMAIN index \cup { records[k].id : k \in DOMAIN records } |->
        IF PositionsOf(records, id) = {} THEN index[id]
        ELSE ExternalObject(store, records[LastOf(records, id)])]

\* search of the three external stores: the filter argument is not used;
\* the backend answers with the topK nearest objects of the collection.
ExternalSearch(store, index, queryEmbedding, topK, filter) ==
    LET score == [id \in DOMAIN index |->
                     CosineSimilarity(queryEmbedding, index[id].embedding)]
    IN { Returned([i \in 1..Min(topK, Len(s)) |->
                     SearchResultOf(s[i], index[s[i]], score[s[i]])]) :
           s \in SortedByScore(DOMAIN index, score) }

ExternalDelete(index, documentId) ==
    [id \in { i \in DOMAIN index : index[i].documentId # documentId } |-> index[id]]

\* describeIndexStats().totalVectorCount, getCollection().points_count, and
\* the literal 0 of WeaviateVectorStore.getStats.
ExternalGetStats(store, index) ==
    IF store = "weaviate" THEN 0 ELSE Cardinality(DOMAIN index)

----------------------------------------------------------------------------
(* The VectorStore interface, over whichever store is configured *)

SearchOutcomes(queryEmbedding, topK, filter) ==
    IF backend = "internal"
    THEN InternalSearch(documents, chunkTable, queryEmbedding, topK, filter)
    ELSE ExternalSearch(backend, extIndex, queryEmbedding, topK, filter)

TotalVectors ==
    IF backend = "internal" THEN InternalGetStats(chunkTable)
    ELSE ExternalGetStats(backend, extIndex)

\* The records the configured store holds, by id.
Stored == IF backend = "internal" THEN chunkTable ELSE extIndex

Upserted(records) ==
    IF backend = "internal" THEN InternalUpsert(chunkTable, records)
    ELSE ExternalUpsert(backend, extIndex, records)

Deleted(documentId) ==
    IF backend = "internal" THEN InternalDelete(chunkTable, documentId)
    ELSE ExternalDelete(extIndex, documentId)

SetStored(rows) ==
    IF backend = "internal"
    THEN chunkTable' = rows /\ UNCHANGED extIndex
    ELSE extIndex' = rows /\ UNCHANGED chunkTable

EmptyRows == [id \in {} |-> 0]

StoreUpsert(records) ==
    /\ Cardinality(DOMAIN Upserted(records)) <= MaxRecords
    /\ SetStored(Upserted(records))
    /\ last' = [op |-> "upsert", records |-> records]
    /\ UNCHANGED <<backend, documents, ragConfig, retrieval, job, chunker,
                   embedder, pipeline,
                   truncation, component, router>>

StoreSearch(queryEmbedding, topK, filter) ==
    /\ \E out \in SearchOutcomes(queryEmbedding, topK, filter) :
          last' = [op |-> "search", queryEmbedding |-> queryEmbedding,
                   topK |-> topK, filter |-> filter, out |-> out]
    /\ UNCHANGED <<backend, documents, chunkTable, extIndex, ragConfig,
                   retrieval, job, chunker,
                   embedder, pipeline,
                   truncation, component, router>>

StoreDelete(documentId) ==
    /\ SetStored(Deleted(documentId))
    /\ last' = [op |-> "delete", documentId |-> documentId,
                statsBefore |-> TotalVectors, before |-> Stored]
    /\ UNCHANGED <<backend, documents, ragConfig, retrieval, job, chunker,
                   embedder, pipeline,
                   truncation, component, router>>

StoreGetStats ==
    /\ last' = [op |-> "getStats", totalVectors |-> TotalVectors]
    /\ UNCHANGED <<backend, documents, chunkTable, extIndex, ragConfig,
                   retrieval, job, chunker,
                   embedder, pipeline,
                   truncation, component, router>>

----------------------------------------------------------------------------
(* Rows of prisma.document *)

DocumentRow(userId, status, chunksCount) ==
    [exists |-> TRUE, userId |-> userId, status |-> status,
     embeddingStatus |-> status, chunksCount |-> chunksCount]

NoDocumentRow ==
    [exists |-> FALSE, userId |-> Undefined, status |-> Undefined,
     embeddingStatus |-> Undefined, chunksCount |-> 0]

NoCall == [op |-> "none"]

----------------------------------------------------------------------------
(* Retriever.retrieve *)

MaxCandidates == 3      \* results of one answer of the vector store

\* An optional entry of an options object: absent, or given with a value.
AbsentNumber == [given |-> FALSE, value |-> 0]
AbsentFlag == [given |-> FALSE, value |-> FALSE]
Given(v) == [given |-> TRUE, value |-> v]
\* A destructuring default: it stands in for an absent entry.
OrDefault(entry, default) == IF entry.given THEN entry.value ELSE default

\* Scores and thresholds in hundredths.
Scores == {50, 75, 90}
Thresholds == {70, 90}
\* topK is a number the caller passes unchecked (the search route passes
\* parseInt of a query parameter).
TopKs == -1..MaxTopK

RetrievalOptions ==
    [query : {<<"q">>},
     userId : {"u1"},
     documentIds : {<<>>, <<"d1">>},
     topK : {AbsentNumber} \cup { Given(k) : k \in TopKs },
     similarityThreshold : {AbsentNumber} \cup { Given(t) : t \in Thresholds },
     useRag : {AbsentFlag, Given(TRUE), Given(FALSE)}]

\* The entries of RagConfig the Retriever reads.
RagConfigs ==
    [retrievalTopK : 1..MaxTopK,
     similarityThreshold : Thresholds,
     rerankEnabled : BOOLEAN,
     rerankModel : {Undefined, "cross-encoder"}]

\* What a vector store may answer to one search: it rejects, or returns
\* any list of results (the id of a result is its position in the answer;
\* the results at odd positions are chunks of d1, the others of d2).
ResultDocument(i) == IF i % 2 = 1 THEN "d1" ELSE "d2"
CandidateLists ==
    UNION { { [i \in 1..n |-> [id |-> i, documentId |-> ResultDocument(i),
                               score |-> f[i]]] :
                f \in [1..n -> Scores] } : n \in 0..MaxCandidates }
StoreAnswers == {Thrown} \cup { Returned(c) : c \in CandidateLists }

\* results.filter(r => r.score >= similarityThreshold)
FilterByThreshold(results, similarityThreshold) ==
    SelectSeq(results, LAMBDA r : r.score >= similarityThreshold)

\* rerankResults: the placeholder returns results.slice(0, topK).
RerankResults(query, results, topK) == Slice(results, topK)

\* The ranked results as DocumentChunk objects.
ToDocumentChunks(rankedResults) ==
    [i \in DOMAIN rankedResults |->
        [id |-> rankedResults[i].id,
         documentId |-> rankedResults[i].documentId,
         score |-> rankedResults[i].score]]

\* The filter retrieve passes to the store.
RetrievalFilter(options) ==
    [userId |-> options.userId,
     documentId |-> IF Len(options.documentIds) > 0
                    THEN InDocuments(Range(options.documentIds))
                    ELSE NoDocFilter]

NoRetrieval ==
    [op |-> "none", query |-> <<>>, topK |-> 0, similarityThreshold |-> 0,
     useRag |-> FALSE, embedCalls |-> 0, searchCalls |-> 0, requested |-> 0,
     filter |-> [userId |-> Undefined, documentId |-> NoDocFilter],
     answer |-> <<>>, threw |-> FALSE, chunks |-> <<>>, totalChunks |-> 0,
     resultQuery |-> <<>>]

\* A retrieve that embeds the query and searches before it looks at useRag.
RetrieveOutcomeSearchesFirst(options, embedOk, out) ==
    [NoRetrieval EXCEPT !.op = "retrieve", !.query = options.query,
                        !.useRag = OrDefault(options.useRag, TRUE),
                        !.embedCalls = 1, !.searchCalls = 1,
                        !.threw = ~embedOk \/ ~out.ok,
                        !.resultQuery = options.query]

\* What one call of retrieve on options comes to, where embedOk says
\* whether embedSingle resolves and out is the store's answer to the search.
RetrieveOutcome(options, embedOk, out) ==
    LET topK == OrDefault(options.topK, ragConfig.retrievalTopK)
        similarityThreshold ==
            OrDefault(options.similarityThreshold, ragConfig.similarityThreshold)
        useRag == OrDefault(options.useRag, TRUE)
        call == [NoRetrieval EXCEPT !.op = "retrieve", !.query = options.query,
                                    !.topK = topK,
                                    !.similarityThreshold = similarityThreshold,
                                    !.useRag = useRag]
        embedded == [call EXCEPT !.embedCalls = 1]
        searched == [embedded EXCEPT !.searchCalls = 1,
                                     !.requested = topK * 2,
                                     !.filter = RetrievalFilter(options)]
        filteredResults == FilterByThreshold(out.results, similarityThreshold)
        rankedResults ==
            IF ragConfig.rerankEnabled /\ ragConfig.rerankModel # Undefined
            THEN RerankResults(options.query, filteredResults, topK)
            ELSE Slice(filteredResults, topK)
    IN IF ~useRag THEN [call EXCEPT !.resultQuery = options.query]
       ELSE IF ~embedOk THEN [embedded EXCEPT !.threw = TRUE]
       ELSE IF ~out.ok THEN [searched EXCEPT !.threw = TRUE]
       ELSE [searched EXCEPT !.answer = out.results,
                             !.chunks = ToDocumentChunks(rankedResults),
                             !.totalChunks = Len(out.results),
                             !.resultQuery = options.query]

\* One call of retrieve.
Retrieve(options, embedOk, out) ==
    /\ retrieval.op = "none"
    /\ retrieval' = RetrieveOutcome(options, embedOk, out)
    /\ UNCHANGED <<backend, documents, chunkTable, extIndex, last,
                   ragConfig, job, chunker,
                   embedder, pipeline,
                   truncation, component, router>>

----------------------------------------------------------------------------
(* DocumentIngestionService: ingestDocument and processDocument *)

BatchSize == 100        \* const batchSize of processDocument
MaxBatches == 2         \* embedding batches of one ingestion

\* The numbers of chunks chunkText yields for the documents ingested: none,
\* one, and a full batch or a full batch and one chunk more, up to
\* MaxBatches batches.
ChunkCounts ==
    {0, 1} \cup UNION { {k * BatchSize, k * BatchSize + 1} : k \in 1..(MaxBatches - 1) }

\* The content of chunk index of a document.
ChunkContent(index) == IF index % 2 = 0 THEN <<"x">> ELSE <<"y">>

\* Math.floor(i / batchSize) + 1
BatchNumber(i) == (i \div BatchSize) + 1
\* The number of turns of the batch loop over n chunks.
NumBatches(n) == (n + BatchSize - 1) \div BatchSize
\* The indexes of chunks.slice(i, i + batchSize), in order.
BatchOf(n, i) == [k \in 1..(Min(i + BatchSize, n) - i) |-> i + k - 1]

\* Entries of errors[]: `Embedding batch ${k} failed: ...`, the message of
\* an exception, "No content to chunk".
EmbeddingBatchError(k) == [kind |-> "embedding", batch |-> k]
ExceptionMessage == [kind |-> "exception", batch |-> 0]
NoContentError == [kind |-> "nocontent", batch |-> 0]

NoResult == [documentId |-> Undefined, chunksCount |-> 0,
             status |-> Undefined, errors |-> <<>>]
\* An IngestionResult (errors: undefined is the empty list).
IngestionResult(documentId, chunksCount, status, errors) ==
    [documentId |-> documentId, chunksCount |-> chunksCount,
     status |-> status, errors |-> errors]

\* The state of one ingestion.  attempts, failed, parsed and rejected
\* record what happened: the batch numbers handed to the embedding
\* provider, those it rejected, whether parsing and creating the document
\* succeeded, and whether a call of prisma or of the vector store rejected.
\* op is the method of the service that is running or ran last (ingest,
\* reprocess, delete), threw whether it rejected instead of returning, and
\* previous the ids under which both storages held a record of the document
\* when reprocessDocument found it or deleteDocument was called.  n stays from one call
\* to the next: it stands for the content of the document.
IdleJob ==
    [pc |-> "idle", n |-> 0, i |-> 0, allEmbeddings |-> <<>>, errors |-> <<>>,
     attempts |-> <<>>, failed |-> {}, parsed |-> FALSE, rejected |-> FALSE,
     result |-> NoResult, op |-> "none", threw |-> FALSE, previous |-> {}]

\* The ids of the records of a document among rows.
RecordsOf(rows, documentId) ==
    { id \in DOMAIN rows : rows[id].documentId = documentId }
\* The ids under which either storage holds a record of the document.
HeldFor(documentId) ==
    RecordsOf(Stored, documentId) \cup RecordsOf(chunkTable, documentId)
\* The ids under which both storages hold a record of the document.
HeldInBoth(documentId) ==
    RecordsOf(Stored, documentId) \cap RecordsOf(chunkTable, documentId)

\* updateDocumentStatus: status and embeddingStatus, and chunksCount when
\* the status is COMPLETED and the count is not 0.
UpdateDocumentStatus(docs, documentId, status, chunksCount) ==
    [docs EXCEPT ![documentId] =
        [@ EXCEPT !.status = status,
                  !.embeddingStatus = status,
                  !.chunksCount = IF status = "COMPLETED" /\ chunksCount # 0
                                  THEN chunksCount ELSE @]]

\* vectorRecords whose id is made of the chunk index alone.
VectorRecordsIdByIndex(documentId, allEmbeddings) ==
    [k \in DOMAIN allEmbeddings |->
        [VectorRecordOf(documentId, allEmbeddings[k], ChunkContent(allEmbeddings[k]))
            EXCEPT !.id = MakeId(Undefined, allEmbeddings[k])]]

\* The vectorRecords of processDocument, from allEmbeddings.
VectorRecords(documentId, allEmbeddings) ==
    [k \in DOMAIN allEmbeddings |->
        VectorRecordOf(documentId, allEmbeddings[k],
                       ChunkContent(allEmbeddings[k]))]

\* The loop "Also save chunks to database": prisma.chunk.upsert per record.
SaveChunkRows(rows, records) ==
    [id \in DOMAIN rows \cup { records[k].id : k \in DOMAIN records } |->
        ChunkUpsertRow(rows, records, id)]

\* A catch block that would hand the failure of a batch on to the outer
\* catch, ending the loop at the first failed batch.
EmbedBatchFailedEndsLoop(j) ==
    [j EXCEPT !.attempts = Append(@, BatchNumber(j.i)),
              !.failed = @ \cup {BatchNumber(j.i)},
              !.pc = "catch"]

\* The try block around embed: on success the results are pushed to
\* allEmbeddings with their chunks; on failure the catch block pushes one
\* message to errors.  Either way the loop goes on to the progress update.
EmbedBatchSucceeded(j) ==
    [j EXCEPT !.attempts = Append(@, BatchNumber(j.i)),
              !.allEmbeddings = @ \o BatchOf(j.n, j.i),
              !.pc = "progress"]
EmbedBatchFailed(j) ==
    [j EXCEPT !.attempts = Append(@, BatchNumber(j.i)),
              !.failed = @ \cup {BatchNumber(j.i)},
              !.errors = Append(@, EmbeddingBatchError(BatchNumber(j.i))),
              !.pc = "progress"]

\* How many records a rejected vectorStore.upsert has written: the
\* internal store awaits one row at a time and stops at the first
\* rejection; an external store sends one request (batches of 1000 for
\* Pinecone), which the backend has applied or not.
UpsertFailPoints(len) ==
    IF backend = "internal" THEN {0, len - 1} \cap 0..(len - 1)
    ELSE {0, len}
\* The rows written by a rejected loop of prisma.chunk.upsert.
SaveFailPoints(len) == {0, len - 1} \cap 0..(len - 1)

\* Whether upsert(records) makes a call that can reject: the loops of the
\* internal store and of Pinecone make none for an empty list.
UpsertCanReject(len) == len > 0 \/ backend \in {"qdrant", "weaviate"}

\* ingestDocument: parseDocument and prisma.document.create succeed, and
\* chunkText yields n chunks.  Their indexes, which are distinct and
\* increasing, are written 0..n-1 here.
StartIngestion(d, userId, n) ==
    /\ documents' = [documents EXCEPT ![d] = DocumentRow(userId, "PROCESSING", 0)]
    /\ job' = [job EXCEPT ![d] =
                  [IdleJob EXCEPT !.pc = IF n = 0 THEN "empty" ELSE "embed",
                                  !.n = n, !.parsed = TRUE, !.op = "ingest"]]
    /\ UNCHANGED <<backend, chunkTable, extIndex, last, ragConfig, retrieval,
                   chunker,
                   embedder, pipeline,
                   truncation, component, router>>

\* A call of ingestDocument while no other call is running.
IngestDocument(d, userId, n) ==
    /\ \A e \in DocIds : job[e].pc = "idle"
    /\ StartIngestion(d, userId, n)

\* A call of ingestDocument for a file not handed in before, whatever the
\* other calls are doing.
IngestDocumentMeanwhile(d, userId, n) ==
    /\ job[d].pc = "idle"
    /\ StartIngestion(d, userId, n)

\* ingestDocument: parseDocument or prisma.document.create throws; the
\* catch block returns a failed result without a document id.
IngestRejected(d) ==
    /\ \A e \in DocIds : job[e].pc = "idle"
    /\ job' = [job EXCEPT ![d] =
                  [IdleJob EXCEPT !.pc = "done", !.op = "ingest",
                                  !.result = IngestionResult("", 0, "failed",
                                                             <<ExceptionMessage>>)]]
    /\ UNCHANGED <<backend, documents, chunkTable, extIndex, last, ragConfig,
                   retrieval, chunker,
                   embedder, pipeline,
                   truncation, component, router>>

\* processDocument, chunks.length === 0.
FailEmpty(d, ok) ==
    /\ job[d].pc = "empty"
    /\ IF ok
       THEN /\ documents' = UpdateDocumentStatus(documents, d, "FAILED", 0)
            /\ job' = [job EXCEPT ![d] =
                          [@ EXCEPT !.pc = "done",
                                    !.result = IngestionResult(d, 0, "failed",
                                                               <<NoContentError>>)]]
       ELSE /\ job' = [job EXCEPT ![d] = [@ EXCEPT !.pc = "catch", !.rejected = TRUE]]
            /\ UNCHANGED documents
    /\ UNCHANGED <<backend, chunkTable, extIndex, last, ragConfig, retrieval,
                   chunker,
                   embedder, pipeline,
                   truncation, component, router>>

\* One call of embeddingProvider.embed on the batch at i, which resolves
\* with one result per text or rejects.
EmbedBatch(d, ok) ==
    /\ job[d].pc = "embed"
    /\ job' = [job EXCEPT ![d] =
                  IF ok THEN EmbedBatchSucceeded(@) ELSE EmbedBatchFailed(@)]
    /\ UNCHANGED <<backend, documents, chunkTable, extIndex, last, ragConfig,
                   retrieval, chunker,
                   embedder, pipeline,
                   truncation, component, router>>

\* "Update progress", then the loop's i += batchSize and test.
UpdateProgress(d, ok) ==
    /\ job[d].pc = "progress"
    /\ IF ok
       THEN /\ documents' = [documents EXCEPT ![d].chunksCount =
                                Min(job[d].i + BatchSize, job[d].n)]
            /\ job' = [job EXCEPT ![d] =
                          [@ EXCEPT !.i = @ + BatchSize,
                                    !.pc = IF job[d].i + BatchSize < job[d].n
                                           THEN "embed" ELSE "upsert"]]
       ELSE /\ job' = [job EXCEPT ![d] = [@ EXCEPT !.pc = "catch", !.rejected = TRUE]]
            /\ UNCHANGED documents
    /\ UNCHANGED <<backend, chunkTable, extIndex, last, ragConfig, retrieval,
                   chunker,
                   embedder, pipeline,
                   truncation, component, router>>

\* vectorStore.upsert(vectorRecords)
UpsertVectors(d, ok) ==
    LET records == VectorRecords(d, job[d].allEmbeddings) IN
    /\ job[d].pc = "upsert"
    /\ IF ok
       THEN /\ SetStored(Upserted(records))
            /\ job' = [job EXCEPT ![d] = [@ EXCEPT !.pc = "save"]]
       ELSE /\ UpsertCanReject(Len(records))
            /\ \E k \in UpsertFailPoints(Len(records)) :
                  SetStored(Upserted(SubSeq(records, 1, k)))
            /\ job' = [job EXCEPT ![d] = [@ EXCEPT !.pc = "catch", !.rejected = TRUE]]
    /\ UNCHANGED <<backend, documents, last, ragConfig, retrieval, chunker,
                   embedder, pipeline,
                   truncation, component, router>>

\* "Also save chunks to database"
SaveChunks(d, ok) ==
    LET records == VectorRecords(d, job[d].allEmbeddings) IN
    /\ job[d].pc = "save"
    /\ IF ok
       THEN /\ chunkTable' = SaveChunkRows(chunkTable, records)
            /\ job' = [job EXCEPT ![d] = [@ EXCEPT !.pc = "complete"]]
       ELSE /\ \E k \in SaveFailPoints(Len(records)) :
                  chunkTable' = SaveChunkRows(chunkTable, SubSeq(records, 1, k))
            /\ job' = [job EXCEPT ![d] = [@ EXCEPT !.pc = "catch", !.rejected = TRUE]]
    /\ UNCHANGED <<backend, documents, extIndex, last, ragConfig, retrieval,
                   chunker,
                   embedder, pipeline,
                   truncation, component, router>>

\* updateDocumentStatus(documentId, "COMPLETED", allEmbeddings.length) and
\* the return of the try block.
CompleteDocument(d, ok) ==
    /\ job[d].pc = "complete"
    /\ IF ok
       THEN /\ documents' = UpdateDocumentStatus(documents, d, "COMPLETED",
                                                 Len(job[d].allEmbeddings))
            /\ job' = [job EXCEPT ![d] =
                          [@ EXCEPT !.pc = "done",
                                    !.result = IngestionResult(d,
                                        Len(job[d].allEmbeddings),
                                        IF Len(job[d].errors) > 0
                                        THEN "partial" ELSE "success",
                                        job[d].errors)]]
       ELSE /\ job' = [job EXCEPT ![d] = [@ EXCEPT !.pc = "catch", !.rejected = TRUE]]
            /\ UNCHANGED documents
    /\ UNCHANGED <<backend, chunkTable, extIndex, last, ragConfig, retrieval,
                   chunker,
                   embedder, pipeline,
                   truncation, component, router>>

\* The catch block of processDocument; when its own status update rejects,
\* the catch block of ingestDocument returns instead, and reprocessDocument,
\* which has none, rejects.
CatchError(d, ok) ==
    /\ job[d].pc = "catch"
    /\ IF ok
       THEN /\ documents' = UpdateDocumentStatus(documents, d, "FAILED", 0)
            /\ job' = [job EXCEPT ![d] =
                          [@ EXCEPT !.pc = "done",
                                    !.errors = Append(@, ExceptionMessage),
                                    !.result = IngestionResult(d, 0, "failed",
                                        Append(job[d].errors, ExceptionMessage))]]
       ELSE /\ job' = [job EXCEPT ![d] =
                          IF job[d].op = "reprocess"
                          THEN [@ EXCEPT !.pc = "done", !.threw = TRUE]
                          ELSE [@ EXCEPT !.pc = "done",
                                         !.result = IngestionResult("", 0, "failed",
                                                        <<ExceptionMessage>>)]]
            /\ UNCHANGED documents
    /\ UNCHANGED <<backend, chunkTable, extIndex, last, ragConfig, retrieval,
                   chunker,
                   embedder, pipeline,
                   truncation, component, router>>

\* No method of the service is running.
ServiceIdle == \A e \in DocIds : job[e].pc \in {"idle", "done"}
\* The callers of reprocessDocument and deleteDocument pass the id of a
\* document that was handed to ingestDocument before.
Submitted(d) == job[d].op # "none"

\* What findUnique of reprocessDocument may come to for document d: it
\* rejects, it gives no document or one without content ("missing"), or it
\* gives the document, whose content chunkText splits into n chunks.  A
\* document has no content only if it was split into no chunk before, and
\* content that was split into no chunk is split into none again.
FindOutcomes(d) ==
    {"rejected"}
        \cup (IF ~documents[d].exists \/ job[d].n = 0 THEN {"missing"} ELSE {})
        \cup (IF documents[d].exists THEN {"found"} ELSE {})
NewChunkCounts(d) == IF job[d].n = 0 THEN {0} ELSE ChunkCounts \ {0}

NotFoundError == [kind |-> "notfound", batch |-> 0]

\* reprocessDocument up to its first return: prisma.document.findUnique
\* and the test of the document and its content.
ReprocessDocument(d, found, n) ==
    /\ ServiceIdle
    /\ Submitted(d)
    /\ found \in FindOutcomes(d)
    /\ n \in NewChunkCounts(d)
    /\ job' = [job EXCEPT ![d] =
                  IF found = "rejected"
                  THEN [IdleJob EXCEPT !.op = "reprocess", !.pc = "done",
                                       !.n = job[d].n, !.threw = TRUE]
                  ELSE IF found = "missing"
                  THEN [IdleJob EXCEPT !.op = "reprocess", !.pc = "done",
                                 !.n = job[d].n,
                                 !.result = IngestionResult(d, 0, "failed",
                                                            <<NotFoundError>>)]
                  ELSE [IdleJob EXCEPT !.op = "reprocess",
                                       !.pc = "reprocess-vectors",
                                       !.n = n, !.parsed = TRUE,
                                       !.previous = HeldInBoth(d)]]
    /\ UNCHANGED <<backend, documents, chunkTable, extIndex, last, ragConfig,
                   retrieval, chunker, embedder, pipeline,
                   truncation, component, router>>

\* A reprocessDocument that goes on without the call of vectorStore.delete.
ReprocessKeepsVectors(d, ok) ==
    /\ job[d].pc = "reprocess-vectors"
    /\ job' = [job EXCEPT ![d] =
                  IF ok THEN [@ EXCEPT !.pc = "reprocess-chunks"]
                  ELSE [@ EXCEPT !.pc = "done", !.threw = TRUE]]
    /\ UNCHANGED <<backend, documents, chunkTable, extIndex, last, ragConfig,
                   retrieval, chunker, embedder, pipeline,
                   truncation, component, router>>

\* reprocessDocument: vectorStore.delete(documentId)
ReprocessDeleteVectors(d, ok) ==
    /\ job[d].pc = "reprocess-vectors"
    /\ IF ok
       THEN /\ SetStored(Deleted(d))
            /\ job' = [job EXCEPT ![d] = [@ EXCEPT !.pc = "reprocess-chunks"]]
       ELSE /\ job' = [job EXCEPT ![d] = [@ EXCEPT !.pc = "done", !.threw = TRUE]]
            /\ UNCHANGED <<chunkTable, extIndex>>
    /\ UNCHANGED <<backend, documents, last, ragConfig, retrieval, chunker,
                   embedder, pipeline,
                   truncation, component, router>>

\* reprocessDocument: prisma.chunk.deleteMany, and then processDocument up
\* to the test of chunks.length.
ReprocessDeleteChunks(d, ok) ==
    /\ job[d].pc = "reprocess-chunks"
    /\ IF ok
       THEN /\ chunkTable' = InternalDelete(chunkTable, d)
            /\ job' = [job EXCEPT ![d] =
                          [@ EXCEPT !.pc = IF job[d].n = 0 THEN "empty" ELSE "embed"]]
       ELSE /\ job' = [job EXCEPT ![d] = [@ EXCEPT !.pc = "done", !.threw = TRUE]]
            /\ UNCHANGED chunkTable
    /\ UNCHANGED <<backend, documents, extIndex, last, ragConfig, retrieval,
                   chunker, embedder, pipeline,
                   truncation, component, router>>

\* deleteDocument up to the end of vectorStore.delete(documentId)
DeleteDocument(d, ok) ==
    /\ ServiceIdle
    /\ Submitted(d)
    /\ IF ok
       THEN /\ SetStored(Deleted(d))
            /\ job' = [job EXCEPT ![d] =
                          [IdleJob EXCEPT !.op = "delete", !.pc = "delete-chunks",
                                          !.n = job[d].n,
                                          !.previous = HeldInBoth(d)]]
       ELSE /\ job' = [job EXCEPT ![d] =
                          [IdleJob EXCEPT !.op = "delete", !.pc = "done",
                                          !.n = job[d].n, !.threw = TRUE,
                                          !.previous = HeldInBoth(d)]]
            /\ UNCHANGED <<chunkTable, extIndex>>
    /\ UNCHANGED <<backend, documents, last, ragConfig, retrieval, chunker,
                   embedder, pipeline,
                   truncation, component, router>>

\* deleteDocument: prisma.chunk.deleteMany
DeleteChunks(d, ok) ==
    /\ job[d].pc = "delete-chunks"
    /\ IF ok
       THEN /\ chunkTable' = InternalDelete(chunkTable, d)
            /\ job' = [job EXCEPT ![d] = [@ EXCEPT !.pc = "delete-document"]]
       ELSE /\ job' = [job EXCEPT ![d] = [@ EXCEPT !.pc = "done", !.threw = TRUE]]
            /\ UNCHANGED chunkTable
    /\ UNCHANGED <<backend, documents, extIndex, last, ragConfig, retrieval,
                   chunker, embedder, pipeline,
                   truncation, component, router>>

\* deleteDocument: prisma.document.delete, which rejects when there is no
\* such row.
DeleteDocumentRow(d, ok) ==
    /\ job[d].pc = "delete-document"
    /\ ok => documents[d].exists
    /\ IF ok
       THEN /\ documents' = [documents EXCEPT ![d] = NoDocumentRow]
            /\ job' = [job EXCEPT ![d] = [@ EXCEPT !.pc = "done"]]
       ELSE /\ job' = [job EXCEPT ![d] = [@ EXCEPT !.pc = "done", !.threw = TRUE]]
            /\ UNCHANGED documents
    /\ UNCHANGED <<backend, chunkTable, extIndex, last, ragConfig, retrieval,
                   chunker, embedder, pipeline,
                   truncation, component, router>>

----------------------------------------------------------------------------
(* The chunker: chunkText, chunkByFixedSize, chunkByParagraph,             *)
(* chunkBySentence, mergeSmallChunks                                       *)

MaxTokens == 5          \* pieces a text handed to chunkText is made of
MaxLoop == 6            \* turns of the window loop that are followed
LongWordLen == 7        \* characters of the long word, and the largest chunkSize
MaxLongPieces == 3      \* pieces of a text that holds long words

DefaultChunkSize == 1000
DefaultChunkOverlap == 200
DefaultMinChunkSize == 100

\* The texts: up to MaxTokens pieces, each a letter, a blank, a paragraph
\* break or the end of a sentence.
Tokens == { <<"a">>, <<" ">>, <<"\n", "\n">>, <<".", " ">> }
RECURSIVE Flatten(_)
Flatten(pieces) ==
    IF pieces = <<>> THEN <<>> ELSE Head(pieces) \o Flatten(Tail(pieces))
\* A word as long as the largest chunkSize, and the texts of up to
\* MaxLongPieces pieces that hold such words.
LongWord == [k \in 1..LongWordLen |-> "a"]
LongTexts ==
    UNION { { Flatten(t) : t \in [1..n -> Tokens \cup {LongWord}] } :
              n \in 0..MaxLongPieces }
ChunkTexts ==
    UNION { { Flatten(t) : t \in [1..n -> Tokens] } : n \in 0..MaxTokens }
        \cup LongTexts

\* Partial<ChunkOptions>: an entry that is absent is, like 0, replaced by
\* the default, so 0 stands for both.
ChunkOptionSets ==
    [strategy : {"fixed", "paragraph", "sentence", "semantic"},
     chunkSize : 0..2 \cup {LongWordLen}, chunkOverlap : 0..2,
     minChunkSize : {0, 4}]

\* value || default, on numbers
OrElse(value, default) == IF value = 0 THEN default ELSE value

IsSpace(c) == c \in {" ", "\n"}

\* String.prototype.trim
RECURSIVE TrimStart(_)
TrimStart(s) ==
    IF s # <<>> /\ IsSpace(Head(s)) THEN TrimStart(Tail(s)) ELSE s
RECURSIVE TrimEnd(_)
TrimEnd(s) ==
    IF s # <<>> /\ IsSpace(s[Len(s)])
    THEN TrimEnd(SubSeq(s, 1, Len(s) - 1)) ELSE s
Trim(s) == TrimEnd(TrimStart(s))

\* s.slice(-n): the last n characters, all of s when it has no more than
\* n, and all of s for n = 0.
SliceLast(s, n) ==
    IF n = 0 \/ n >= Len(s) THEN s ELSE SubSeq(s, Len(s) - n + 1, Len(s))
\* s.slice(k) for k >= 0
SliceFrom(s, k) == SubSeq(s, k + 1, Len(s))

\* text.split(regex), given the positions of the characters the matches of
\* the regex cover (the matches are maximal runs, so adjacent positions
\* belong to one match): the pieces between the matches; a match at either
\* end leaves an empty piece there, and the empty text has one empty piece.
SplitBy(text, covered) ==
    LET F[p \in 0..Len(text)] ==
            IF p = 0 THEN << <<>> >>
            ELSE LET before == F[p - 1] IN
                 IF p \in covered
                 THEN IF (p - 1) \in covered
                      THEN before ELSE Append(before, <<>>)
                 ELSE [before EXCEPT ![Len(before)] = Append(@, text[p])]
    IN F[Len(text)]

\* text.split(/\s+/)
SplitWhitespace(text) ==
    SplitBy(text, { p \in DOMAIN text : IsSpace(text[p]) })

\* text.split(/\n\n+/): the runs of two or more newlines
SplitParagraphs(text) ==
    SplitBy(text, { p \in DOMAIN text :
                      /\ text[p] = "\n"
                      /\ \/ p > 1 /\ text[p - 1] = "\n"
                         \/ p < Len(text) /\ text[p + 1] = "\n" })

\* The first position of the run of white space that position p is in.
RunStart(text, p) ==
    CHOOSE q \in 1..p :
        /\ \A m \in q..p : IsSpace(text[m])
        /\ q = 1 \/ ~IsSpace(text[q - 1])

\* text.split(/(?<=[.!?])\s+/): the runs of white space that follow a
\* full stop, a question mark or an exclamation mark
SplitSentences(text) ==
    SplitBy(text, { p \in DOMAIN text :
                      /\ IsSpace(text[p])
                      /\ RunStart(text, p) > 1
                      /\ text[RunStart(text, p) - 1] \in {".", "!", "?"} })

\* pieces.join(sep)
RECURSIVE Join(_, _)
Join(pieces, sep) ==
    IF pieces = <<>> THEN <<>>
    ELSE IF Len(pieces) = 1 THEN pieces[1]
    ELSE pieces[1] \o sep \o Join(Tail(pieces), sep)

TextChunk(content, index, startChar, endChar) ==
    [content |-> content, index |-> index, startChar |-> startChar,
     endChar |-> endChar]

\* mergeSmallChunks: the loop from chunk i on, with the chunk held in
\* current and the list merged built so far.
RECURSIVE MergeFrom(_, _, _, _, _)
MergeFrom(chunks, minSize, i, current, merged) ==
    IF i > Len(chunks) THEN Append(merged, current)
    ELSE LET next == chunks[i] IN
         IF Len(current.content) < minSize
         THEN MergeFrom(chunks, minSize, i + 1,
                        [current EXCEPT !.content = @ \o <<"\n", "\n">> \o next.content,
                                        !.endChar = next.endChar],
                        merged)
         ELSE MergeFrom(chunks, minSize, i + 1, next, Append(merged, current))

MergeSmallChunks(chunks, minSize) ==
    IF Len(chunks) <= 1 THEN chunks
    ELSE MergeFrom(chunks, minSize, 2, chunks[1], <<>>)

\* What a chunking function gives: the chunks it returns, or, for a loop
\* that does not end, nothing.
ChunksReturned(chunks) == [returned |-> TRUE, chunks |-> chunks]
NotReturned == [returned |-> FALSE, chunks |-> <<>>]

\* The while loop of chunkByFixedSize from the window at start.  The loop
\* is followed for MaxLoop turns; a loop that has not ended by then is
\* reported as not returned.
RECURSIVE FixedWindows(_, _, _, _, _)
FixedWindows(words, options, start, index, chunks) ==
    IF ~(start < Len(words)) THEN ChunksReturned(chunks)
    ELSE IF Len(chunks) >= MaxLoop THEN NotReturned
    ELSE LET end == Min(start + options.chunkSize, Len(words))
             content == Join(SubSeq(words, start + 1, end), <<" ">>)
             beforeText == Len(Join(SubSeq(words, 1, start), <<" ">>))
             beforeSpaces == start
             pushed == Append(chunks,
                              TextChunk(content, index, beforeText + beforeSpaces,
                                        beforeText + beforeSpaces + Len(content)))
         IN IF end - start < options.chunkOverlap \/ end >= Len(words)
            THEN ChunksReturned(pushed)
            ELSE FixedWindows(words, options,
                              start + options.chunkSize - options.chunkOverlap,
                              index + 1, pushed)

ChunkByFixedSize(text, options) ==
    LET windows == FixedWindows(SplitWhitespace(text), options, 0, 0, <<>>)
    IN IF windows.returned
       THEN ChunksReturned(MergeSmallChunks(windows.chunks, options.minChunkSize))
       ELSE NotReturned

\* The variables of the loops of chunkBySentence and chunkByParagraph.
LoopStart ==
    [returned |-> TRUE, chunks |-> <<>>, currentChunk |-> <<>>,
     currentStart |-> 0, index |-> 0]

\* chunks.push({content: currentChunk.trim(), index: index++, startChar:
\* currentStart, endChar: currentStart + currentChunk.length})
PushCurrent(st) ==
    [st EXCEPT !.chunks = Append(@, TextChunk(Trim(st.currentChunk), st.index,
                                   st.currentStart,
                                   st.currentStart + Len(st.currentChunk))),
               !.index = @ + 1]

\* The loop over subChunks, each pushed with the next index and its
\* positions moved by currentStart, and then
\* currentStart = chunks[chunks.length - 1]?.endChar || currentStart.
PushSubChunks(st, subChunks) ==
    LET chunks == st.chunks \o
                    [k \in 1..Len(subChunks) |->
                        [subChunks[k] EXCEPT !.index = st.index + k - 1,
                                             !.startChar = st.currentStart + @,
                                             !.endChar = st.currentStart + @]]
        lastEnd == IF chunks = <<>> THEN 0 ELSE chunks[Len(chunks)].endChar
    IN [st EXCEPT !.chunks = chunks,
                  !.index = @ + Len(subChunks),
                  !.currentStart = IF lastEnd = 0 THEN @ ELSE lastEnd]

\* options with chunkSize: Math.floor(chunkSize / 2)
Halved(options) == [options EXCEPT !.chunkSize = @ \div 2]

\* The final push of the two loops.
PushRemaining(st) ==
    IF Trim(st.currentChunk) # <<>> THEN PushCurrent(st) ELSE st

\* One turn of the loop of chunkBySentence, on a sentence that is not
\* empty after trim.
SentenceTurn(st, sentence, options) ==
    IF Len(sentence) > options.chunkSize
    THEN LET flushed == PushRemaining(st)
             sub == ChunkByFixedSize(sentence, Halved(options))
         IN IF sub.returned THEN PushSubChunks(flushed, sub.chunks)
            ELSE [st EXCEPT !.returned = FALSE]
    ELSE LET cut ==
                IF /\ Len(st.currentChunk) + Len(sentence) > options.chunkSize
                   /\ Trim(st.currentChunk) # <<>>
                THEN LET overlapStart ==
                            Max(0, Len(st.currentChunk) - options.chunkOverlap)
                     IN [PushCurrent(st) EXCEPT
                            !.currentChunk = SliceFrom(@, overlapStart),
                            !.currentStart = @ + IF overlapStart > 0
                                                 THEN options.chunkOverlap ELSE 0]
                ELSE st
         IN [cut EXCEPT !.currentChunk =
                @ \o (IF @ # <<>> THEN <<".", " ">> ELSE <<>>) \o sentence]

RECURSIVE SentenceLoop(_, _, _, _)
SentenceLoop(sentences, options, i, st) ==
    IF i > Len(sentences) \/ ~st.returned THEN st
    ELSE IF Trim(sentences[i]) = <<>>
         THEN SentenceLoop(sentences, options, i + 1, st)
         ELSE SentenceLoop(sentences, options, i + 1,
                           SentenceTurn(st, Trim(sentences[i]), options))

ChunkBySentence(text, options) ==
    LET st == SentenceLoop(SplitSentences(text), options, 1, LoopStart)
    IN IF st.returned
       THEN ChunksReturned(MergeSmallChunks(PushRemaining(st).chunks,
                                            options.minChunkSize))
       ELSE NotReturned

\* One turn of the loop of chunkByParagraph, on a paragraph that is not
\* empty after trim.
ParagraphTurn(st, trimmed, options) ==
    IF Len(trimmed) > options.chunkSize
    THEN LET flushed == IF Trim(st.currentChunk) # <<>>
                        THEN [PushCurrent(st) EXCEPT !.currentChunk = <<>>]
                        ELSE st
             sub == ChunkBySentence(trimmed, Halved(options))
         IN IF sub.returned THEN PushSubChunks(flushed, sub.chunks)
            ELSE [st EXCEPT !.returned = FALSE]
    ELSE IF /\ Len(st.currentChunk) + Len(trimmed) > options.chunkSize
            /\ Trim(st.currentChunk) # <<>>
         THEN LET overlapText == SliceLast(st.currentChunk, options.chunkOverlap)
                  currentChunk == overlapText \o <<"\n", "\n">> \o trimmed
              IN [PushCurrent(st) EXCEPT
                     !.currentChunk = currentChunk,
                     !.currentStart = @ + Len(currentChunk) - Len(trimmed)
                                        - Len(overlapText)]
         ELSE [st EXCEPT !.currentChunk =
                  @ \o (IF @ # <<>> THEN <<"\n", "\n">> ELSE <<>>) \o trimmed]

RECURSIVE ParagraphLoop(_, _, _, _)
ParagraphLoop(paragraphs, options, i, st) ==
    IF i > Len(paragraphs) \/ ~st.returned THEN st
    ELSE IF Trim(paragraphs[i]) = <<>>
         THEN ParagraphLoop(paragraphs, options, i + 1, st)
         ELSE ParagraphLoop(paragraphs, options, i + 1,
                            ParagraphTurn(st, Trim(paragraphs[i]), options))

ChunkByParagraph(text, options) ==
    LET st == ParagraphLoop(SplitParagraphs(text), options, 1, LoopStart)
    IN IF st.returned
       THEN ChunksReturned(MergeSmallChunks(PushRemaining(st).chunks,
                                            options.minChunkSize))
       ELSE NotReturned

\* chunkText: the defaults, then the strategy.
ChunkConfig(options) ==
    [strategy |-> options.strategy,
     chunkSize |-> OrElse(options.chunkSize, DefaultChunkSize),
     chunkOverlap |-> OrElse(options.chunkOverlap, DefaultChunkOverlap),
     minChunkSize |-> OrElse(options.minChunkSize, DefaultMinChunkSize)]

ChunkTextResult(text, config) ==
    IF config.strategy = "fixed" THEN ChunkByFixedSize(text, config)
    ELSE IF config.strategy = "sentence" THEN ChunkBySentence(text, config)
    ELSE ChunkByParagraph(text, config)

NoChunking == [op |-> "none", text |-> <<>>, config |-> ChunkConfig(
                  [strategy |-> "fixed", chunkSize |-> 0, chunkOverlap |-> 0,
                   minChunkSize |-> 0]),
               returned |-> FALSE, chunks |-> <<>>]

ChunkText(text, options) ==
    LET config == ChunkConfig(options)
        out == ChunkTextResult(text, config)
    IN /\ chunker.op = "none"
       /\ chunker' = [op |-> "chunkText", text |-> text, config |-> config,
                      returned |-> out.returned, chunks |-> out.chunks]
       /\ UNCHANGED <<backend, documents, chunkTable, extIndex, last, ragConfig,
                      retrieval, job,
                      embedder, pipeline,
                   truncation, component, router>>

----------------------------------------------------------------------------
(* The embedding providers: OpenAIEmbeddingProvider.embed and              *)
(* CohereEmbeddingProvider.embed                                           *)

MaxTexts == 5           \* texts handed to one call of embed
MaxProviderBatch == 2   \* the largest maxBatchSize a provider is given

Providers == {"openai", "cohere"}

\* The field maxBatchSize of a provider: the number of texts of one request.
ProviderBatchSizes == 1..MaxProviderBatch

TextLists == UNION { [1..n -> Contents] : n \in 0..MaxTexts }

\* What the embedding endpoint answers to a request that succeeds
\* (response.data, data.embeddings): one embedding per text of the request,
\* in the order of the request.
ApiResponse(batch) == [k \in DOMAIN batch |-> Embed(batch[k])]

\* results.push({embedding, model, provider, tokens})
EmbeddingResult(provider, embedding) ==
    [embedding |-> embedding, provider |-> provider]

\* texts.slice(i, i + this.maxBatchSize), with the end index left where the
\* first batch ends
TextBatchEndNotMoved(texts, i, maxBatchSize) ==
    SubSeq(texts, i + 1, Min(maxBatchSize, Len(texts)))

\* texts.slice(i, i + this.maxBatchSize)
TextBatch(texts, i, maxBatchSize) ==
    SubSeq(texts, i + 1, Min(i + maxBatchSize, Len(texts)))

\* The locals of embed: pc is where the call is (idle: not called, loop:
\* before a request, returned, rejected), calls the requests made so far.
NoEmbedding ==
    [pc |-> "idle", provider |-> Undefined, maxBatchSize |-> 1,
     texts |-> <<>>, i |-> 0, calls |-> <<>>, results |-> <<>>]

\* The test of the for loop.
LoopOrReturn(i, texts) == IF i < Len(texts) THEN "loop" ELSE "returned"

\* embed(texts) is called on a provider.
EmbedTexts(provider, maxBatchSize, texts) ==
    /\ embedder.pc = "idle"
    /\ embedder' = [NoEmbedding EXCEPT !.pc = LoopOrReturn(0, texts),
                                       !.provider = provider,
                                       !.maxBatchSize = maxBatchSize,
                                       !.texts = texts]
    /\ UNCHANGED <<backend, documents, chunkTable, extIndex, last, ragConfig,
                   retrieval, job, chunker, pipeline,
                   truncation, component, router>>

\* One turn of the loop: the request for the batch at i, which succeeds
\* (ok) or fails; a failure rejects the await and with it the call of embed.
EmbedSubBatch(ok) ==
    LET batch == TextBatch(embedder.texts, embedder.i, embedder.maxBatchSize)
        called == [embedder EXCEPT
                      !.calls = Append(@, [start |-> embedder.i,
                                           size |-> Len(batch),
                                           ok |-> ok])]
        response == ApiResponse(batch)
    IN /\ embedder.pc = "loop"
       /\ embedder' =
            IF ok
            THEN [called EXCEPT
                    !.results = @ \o [k \in DOMAIN response |->
                                        EmbeddingResult(embedder.provider,
                                                        response[k])],
                    !.i = @ + embedder.maxBatchSize,
                    !.pc = LoopOrReturn(embedder.i + embedder.maxBatchSize,
                                        embedder.texts)]
            ELSE [called EXCEPT !.pc = "rejected"]
       /\ UNCHANGED <<backend, documents, chunkTable, extIndex, last, ragConfig,
                      retrieval, job, chunker, pipeline,
                   truncation, component, router>>

----------------------------------------------------------------------------
(* QueryBuilder, ContextBuilder and RagPipeline.query                      *)

DefaultMaxExpansions == 5
MinSubQuestionLength == 10

Repeat(c, n) == [k \in 1..n |-> c]

\* The queries: a single letter, and "The cat."
Queries == { <<"q">>, <<"T", "h", "e", " ", "c", "a", "t", ".">> }

\* What llmGenerate may resolve to: nothing, a short text, and two numbered
\* lines of which the first is longer than MinSubQuestionLength.
LlmAnswers ==
    { <<>>,
      <<"c", "a", "t">>,
      <<"1", ".", " ">> \o Repeat("c", MinSubQuestionLength + 1)
          \o <<"\n", "2", ")", " ", "c", "a", "t">> }
LlmOutcomes ==
    { [ok |-> FALSE, text |-> <<>>] } \cup { [ok |-> TRUE, text |-> a] : a \in LlmAnswers }

Digits == {"0", "1", "2", "3", "4", "5", "6", "7", "8", "9"}
UpperCase == {"C", "T"}
\* \w, over the letters the queries and answers are written with
WordChars == {"a", "c", "e", "h", "q", "t", "_"} \cup UpperCase \cup Digits
\* The stop words of expandQuery that these letters can spell.
StopWords == { <<"t", "h", "e">>, <<"a">>, <<"a", "t">> }

\* query.toLowerCase()
ToLowerCase(s) ==
    [k \in DOMAIN s |-> IF s[k] = "C" THEN "c" ELSE IF s[k] = "T" THEN "t" ELSE s[k]]

\* s.replace(/[^\w\s]/g, "")
StripPunctuation(s) == SelectSeq(s, LAMBDA c : c \in WordChars \/ IsSpace(c))

\* Array.from(new Set(words)): the first occurrence of every word, in order
Unique(words) ==
    LET F[k \in 0..Len(words)] ==
            IF k = 0 THEN <<>>
            ELSE LET before == F[k - 1] IN
                 IF words[k] \in Range(before) THEN before
                 ELSE Append(before, words[k])
    IN F[Len(words)]

\* expandQuery(query): `${query} ${keywords.join(" ")}`
ExpandQuery(query) ==
    LET words == SelectSeq(SplitWhitespace(StripPunctuation(ToLowerCase(query))),
                           LAMBDA w : Len(w) > 2 /\ w \notin StopWords)
        keywords == Slice(Unique(words), DefaultMaxExpansions)
    IN query \o <<" ">> \o Join(keywords, <<" ">>)

\* response.split("\n"): every newline separates two pieces
SplitLines(text) ==
    LET F[p \in 0..Len(text)] ==
            IF p = 0 THEN << <<>> >>
            ELSE LET before == F[p - 1] IN
                 IF text[p] = "\n" THEN Append(before, <<>>)
                 ELSE [before EXCEPT ![Len(before)] = Append(@, text[p])]
    IN F[Len(text)]

\* The number of digits q starts with.
LeadingDigits(q) ==
    IF \A k \in DOMAIN q : q[k] \in Digits THEN Len(q)
    ELSE (CHOOSE k \in DOMAIN q :
              /\ q[k] \notin Digits
              /\ \A m \in 1..(k - 1) : q[m] \in Digits) - 1

\* q.replace(/^\d+[\.\)]\s*/, "")
StripNumbering(q) ==
    LET d == LeadingDigits(q)
    IN IF d >= 1 /\ Len(q) > d /\ q[d + 1] \in {".", ")"}
       THEN TrimStart(SliceFrom(q, d + 1))
       ELSE q

\* decomposeQuery: the queries of the sub-questions the answer holds
DecomposeQuery(response) ==
    LET lines == SplitLines(response)
        cleaned == [k \in DOMAIN lines |-> Trim(StripNumbering(lines[k]))]
    IN SelectSeq(cleaned, LAMBDA q : Len(q) > MinSubQuestionLength)

\* The options of query: those of retrieve, transformQuery (absent is
\* Undefined), customSystemPrompt and whether llmGenerate is supplied.
Transforms == {Undefined, "original", "expanded", "hyde", "subquestion"}
QueryOptions ==
    [query : Queries,
     userId : {"u1"},
     documentIds : {<<>>},
     topK : {AbsentNumber, Given(1)},
     similarityThreshold : {AbsentNumber},
     useRag : {AbsentFlag, Given(FALSE)},
     transformQuery : Transforms,
     customSystemPrompt : {Undefined, "custom"},
     llmGenerate : BOOLEAN]

\* The RagConfig a pipeline is constructed with.
PipelineConfigs ==
    [retrievalTopK : {MaxTopK}, similarityThreshold : {70},
     rerankEnabled : {FALSE}, rerankModel : {Undefined},
     includeCitations : BOOLEAN, citationFormat : {"numbered", "inline"}]

\* A buildContext that builds no citation for the last chunk.
BuildContextLastUncited(retrievalResult) ==
    [context |->
        [idx \in DOMAIN retrievalResult.chunks |->
            [prefix |-> IF ragConfig.citationFormat = "numbered"
                        THEN [kind |-> "numbered", n |-> idx]
                        ELSE [kind |-> "source", n |-> 0],
             chunkId |-> retrievalResult.chunks[idx].id]],
     citations |->
        [idx \in 1..(Len(retrievalResult.chunks) - 1) |->
            [chunkId |-> retrievalResult.chunks[idx].id,
             documentId |-> retrievalResult.chunks[idx].documentId,
             score |-> retrievalResult.chunks[idx].score]],
     metadata |-> [chunksUsed |-> Len(retrievalResult.chunks)]]

\* buildContext: a block per chunk (its prefix, a new line, its content;
\* the blocks are joined by an empty line, so the context is the empty
\* string exactly when there is no block), and a citation per chunk.
BuildContext(retrievalResult) ==
    [context |->
        [idx \in DOMAIN retrievalResult.chunks |->
            [prefix |-> IF ragConfig.citationFormat = "numbered"
                        THEN [kind |-> "numbered", n |-> idx]
                        ELSE [kind |-> "source", n |-> 0],
             chunkId |-> retrievalResult.chunks[idx].id]],
     citations |->
        [idx \in DOMAIN retrievalResult.chunks |->
            [chunkId |-> retrievalResult.chunks[idx].id,
             documentId |-> retrievalResult.chunks[idx].documentId,
             score |-> retrievalResult.chunks[idx].score]],
     metadata |-> [chunksUsed |-> Len(retrievalResult.chunks)]]

\* A buildRagPrompt that puts the context into the prompt as it is.
BuildRagPromptWithoutMarker(userQuery, retrievalResult, customSystemPrompt) ==
    LET built == BuildContext(retrievalResult)
    IN [prompt |->
            [systemPrompt |-> IF customSystemPrompt # Undefined
                              THEN customSystemPrompt ELSE "NexusAI",
             context |-> built.context,
             noContextMarker |-> FALSE,
             citeSources |-> ragConfig.includeCitations],
        context |-> built.context,
        citations |-> built.citations,
        metadata |-> [chunksUsed |-> built.metadata.chunksUsed]]

\* buildRagPrompt: the prompt is the system prompt, the context or the
\* marker "No relevant context found.", and the instructions.
BuildRagPrompt(userQuery, retrievalResult, customSystemPrompt) ==
    LET built == BuildContext(retrievalResult)
    IN [prompt |->
            [systemPrompt |-> IF customSystemPrompt # Undefined
                              THEN customSystemPrompt ELSE "NexusAI",
             context |-> built.context,
             noContextMarker |-> built.context = <<>>,
             citeSources |-> ragConfig.includeCitations],
        context |-> built.context,
        citations |-> built.citations,
        metadata |-> [chunksUsed |-> built.metadata.chunksUsed]]

\* The state of a call of query: the calls it made, whether it rejected
\* (threw) and, when it resolved, its result {ragContext, transformedQuery}.
NoQuery ==
    [op |-> "none", options |-> Undefined, llmCalls |-> 0,
     retrieval |-> NoRetrieval, threw |-> FALSE,
     result |-> [ragContext |-> Undefined, transformedQuery |-> <<>>]]

\* The first statements of query: the transformed query, or a rejection of
\* llmGenerate
TransformQuery(options, llm) ==
    LET transformQuery == IF options.transformQuery = Undefined
                          THEN "original" ELSE options.transformQuery
    IN IF transformQuery = "expanded"
       THEN [ok |-> TRUE, llmCalls |-> 0, query |-> ExpandQuery(options.query)]
       ELSE IF transformQuery = "hyde" /\ options.llmGenerate
       THEN [ok |-> llm.ok, llmCalls |-> 1, query |-> llm.text]
       ELSE IF transformQuery = "subquestion" /\ options.llmGenerate
       THEN LET subquestions == DecomposeQuery(llm.text)
            IN [ok |-> llm.ok, llmCalls |-> 1,
                query |-> IF llm.ok /\ subquestions # <<>>
                          THEN subquestions[1] ELSE options.query]
       ELSE [ok |-> TRUE, llmCalls |-> 0, query |-> options.query]

\* RagPipeline.query (RagQueryService.query passes its options on to it):
\* llm is what llmGenerate comes to when it is called, embedOk and out what
\* the provider and the store do when retrieve calls them.
QueryOutcome(options, llm, embedOk, out) ==
    LET transformed == TransformQuery(options, llm)
        retrievalResult ==
            RetrieveOutcome([options EXCEPT !.query = transformed.query],
                            embedOk, out)
        called == [NoQuery EXCEPT !.op = "query", !.options = options,
                                  !.llmCalls = transformed.llmCalls]
    IN IF ~transformed.ok THEN [called EXCEPT !.threw = TRUE]
       ELSE IF retrievalResult.threw
       THEN [called EXCEPT !.retrieval = retrievalResult, !.threw = TRUE]
       ELSE [called EXCEPT
                !.retrieval = retrievalResult,
                !.result = [ragContext |->
                                BuildRagPrompt(options.query, retrievalResult,
                                               options.customSystemPrompt),
                            transformedQuery |-> transformed.query]]

Query(options, llm, embedOk, out) ==
    /\ pipeline.op = "none"
    /\ pipeline' = QueryOutcome(options, llm, embedOk, out)
    /\ UNCHANGED <<backend, documents, chunkTable, extIndex, last, ragConfig,
                   retrieval, job, chunker, embedder,
                   truncation, component, router>>

----------------------------------------------------------------------------
(* truncateContext *)

MaxTruncTokens == 2     \* maxTokens of a call of truncateContext is 0..MaxTruncTokens
MaxContextLen == 9      \* characters of the context handed to truncateContext

\* The contexts: letters, full stops and new lines.
ContextChars == {"a", ".", "\n"}
Contexts == UNION { [1..n -> ContextChars] : n \in 0..MaxContextLen }

\* String.prototype.lastIndexOf for one character: the index, from 0, of
\* its last occurrence, or -1.
LastIndexOf(text, c) ==
    LET at == { i \in DOMAIN text : text[i] = c }
    IN IF at = {} THEN -1
       ELSE (CHOOSE i \in at : \A j \in at : j <= i) - 1

Ellipsis == <<".", ".", ".">>

\* A truncateContext that looks for the last full stop only.
TruncateContextAtPeriod(context, maxTokens) ==
    LET maxChars == maxTokens * 4
        truncated == SubSeq(context, 1, maxChars)
        cutoff == LastIndexOf(truncated, ".")
    IN IF Len(context) <= maxChars THEN context
       ELSE IF cutoff * 10 > maxChars * 8 THEN SubSeq(truncated, 1, cutoff + 1)
       ELSE truncated \o Ellipsis

\* truncateContext; cutoff > maxChars * 0.8 is compared in tenths.
TruncateContext(context, maxTokens) ==
    LET maxChars == maxTokens * 4
        truncated == SubSeq(context, 1, maxChars)
        lastPeriod == LastIndexOf(truncated, ".")
        lastNewline == LastIndexOf(truncated, "\n")
        cutoff == IF lastPeriod > lastNewline THEN lastPeriod ELSE lastNewline
    IN IF Len(context) <= maxChars THEN context
       ELSE IF cutoff * 10 > maxChars * 8 THEN SubSeq(truncated, 1, cutoff + 1)
       ELSE truncated \o Ellipsis

NoTruncation == [op |-> "none", context |-> <<>>, maxTokens |-> 0, result |-> <<>>]

\* One call of truncateContext.
Truncate(context, maxTokens) ==
    /\ truncation.op = "none"
    /\ truncation' = [op |-> "truncateContext", context |-> context,
                      maxTokens |-> maxTokens,
                      result |-> TruncateContext(context, maxTokens)]
    /\ UNCHANGED <<backend, documents, chunkTable, extIndex, last, ragConfig,
                   retrieval, job, chunker, embedder, pipeline, component, router>>

----------------------------------------------------------------------------
(* Construction of embedding providers and vector stores *)

MaxComponentCalls == 2  \* calls made on one provider or store

\* The provider names createEmbeddingProvider is typed for, and one it is
\* not.
ProviderNames == {"openai", "cohere", "local", "anthropic", "unknown"}
\* The store names of VectorStoreConfig; Undefined is an absent provider.
StoreNames == {Undefined, "internal", "pinecone", "qdrant", "weaviate", "unknown"}
ExternalStores == {"pinecone", "qdrant", "weaviate"}
ProviderCalls == {"embed", "embedSingle"}
StoreCalls == {"upsert", "search", "delete", "getStats"}

\* A provider or store: kind and name, how it was built (via the factory
\* or its constructor), whether the credential (apiKey, prisma) was given,
\* what building it came to, whether initialize() set the client, the
\* calls made on it and the error of the first call that rejected for a
\* reason of configuration.
NoComponent ==
    [kind |-> "none", name |-> Undefined, via |-> Undefined, credential |-> FALSE,
     built |-> "none", initialized |-> FALSE, initError |-> FALSE,
     calls |-> <<>>, error |-> "none"]

Component(kind, name, via, credential, built) ==
    [NoComponent EXCEPT !.kind = kind, !.name = name, !.via = via,
                        !.credential = credential, !.built = built]

\* createEmbeddingProvider(provider, {apiKey})
CreateEmbeddingProvider(provider, apiKey) ==
    /\ component.kind = "none"
    /\ component' =
          Component("provider", provider, "factory", apiKey,
                    IF provider \in {"openai", "cohere"} /\ apiKey
                    THEN "constructed" ELSE "configuration-error")
    /\ UNCHANGED <<backend, documents, chunkTable, extIndex, last, ragConfig,
                   retrieval, job, chunker, embedder, pipeline, truncation, router>>

\* new LocalEmbeddingProvider()
NewLocalEmbeddingProvider ==
    /\ component.kind = "none"
    /\ component' = Component("provider", "local", "constructor", TRUE, "constructed")
    /\ UNCHANGED <<backend, documents, chunkTable, extIndex, last, ragConfig,
                   retrieval, job, chunker, embedder, pipeline, truncation, router>>

\* createVectorStore({provider, prisma})
CreateVectorStore(provider, prisma) ==
    /\ component.kind = "none"
    /\ component' =
          Component("store", provider, "factory", prisma,
                    IF provider \in {"internal", Undefined} /\ prisma
                    THEN "constructed" ELSE "configuration-error")
    /\ UNCHANGED <<backend, documents, chunkTable, extIndex, last, ragConfig,
                   retrieval, job, chunker, embedder, pipeline, truncation, router>>

\* new PineconeVectorStore(config), new QdrantVectorStore(config), new
\* WeaviateVectorStore(config): the constructors store the configuration.
NewExternalVectorStore(name, apiKey) ==
    /\ component.kind = "none"
    /\ component' = Component("store", name, "constructor", apiKey, "constructed")
    /\ UNCHANGED <<backend, documents, chunkTable, extIndex, last, ragConfig,
                   retrieval, job, chunker, embedder, pipeline, truncation, router>>

\* vectorStore.initialize(config): the internal store has nothing to load;
\* an external store imports its client package, which is installed or not.
InitializeStore(installed) ==
    /\ component.kind = "store"
    /\ component.built = "constructed"
    /\ ~component.initialized /\ ~component.initError
    /\ component.calls = <<>>
    /\ component' =
          IF component.name \in ExternalStores /\ ~installed
          THEN [component EXCEPT !.initError = TRUE]
          ELSE [component EXCEPT !.initialized = TRUE]
    /\ UNCHANGED <<backend, documents, chunkTable, extIndex, last, ragConfig,
                   retrieval, job, chunker, embedder, pipeline, truncation, router>>

\* The error of configuration a call on the component rejects with, if
\* any: the local provider's embed and embedSingle await initialize(),
\* which throws; an external store tests its client first.
CallError(c) ==
    IF c.kind = "provider" /\ c.name = "local" THEN "configuration-error"
    ELSE IF c.kind = "store" /\ c.name \in ExternalStores /\ ~c.initialized
    THEN "not-initialized"
    ELSE "none"

\* embed, embedSingle, upsert, search, delete or getStats on a component
\* that was built.
CallComponent(call) ==
    /\ component.built = "constructed"
    /\ Len(component.calls) < MaxComponentCalls
    /\ call \in (IF component.kind = "provider" THEN ProviderCalls ELSE StoreCalls)
    /\ component' =
          [component EXCEPT !.calls = Append(@, call),
                            !.error = IF @ = "none" THEN CallError(component) ELSE @]
    /\ UNCHANGED <<backend, documents, chunkTable, extIndex, last, ragConfig,
                   retrieval, job, chunker, embedder, pipeline, truncation, router>>

----------------------------------------------------------------------------
(* Message router: registerUserAgent, routeMessage, processMessage *)

MaxLogs == 2            \* rows of the message log

PlatformUsers == {"p1", "p2"}
\* The user agent of a platform user: none, or one that is active or not.
AgentStates == {"none", "active", "inactive"}

NoActiveAgent == "No active agent found for this user"
RoutingException == "exception"

NoMessageCall ==
    [op |-> "none", user |-> Undefined, agent |-> "none", lookedUp |-> FALSE,
     logged |-> FALSE, generated |-> FALSE, threw |-> FALSE,
     success |-> FALSE, error |-> Undefined, response |-> FALSE]

NoRouter ==
    [agents |-> [p \in PlatformUsers |-> "none"], logs |-> <<>>,
     call |-> NoMessageCall]

\* registerUserAgent: an existing agent is updated with isActive true, a
\* new one is created with the default of the column, which the sources do
\* not give.
RegisterUserAgent(p, default) ==
    /\ default \in {"active", "inactive"}
    /\ router.agents[p] = "none" \/ default = "active"
    /\ router' = [router EXCEPT !.agents[p] =
                                    IF @ = "none" THEN default ELSE "active"]
    /\ UNCHANGED <<backend, documents, chunkTable, extIndex, last, ragConfig,
                   retrieval, job, chunker, embedder, pipeline, truncation,
                   component>>

\* A routeMessage that takes any agent it finds.
RouteMessageAnyAgent(agent, lookupOk, logOk) ==
    IF ~lookupOk THEN [routed |-> "throws", logged |-> FALSE]
    ELSE IF agent = "none" THEN [routed |-> "null", logged |-> FALSE]
    ELSE IF ~logOk THEN [routed |-> "throws", logged |-> FALSE]
    ELSE [routed |-> "message", logged |-> TRUE]

\* routeMessage: findUserAgent, the tests of the agent, and
\* prisma.messageLog.create; lookupOk and logOk say whether the two calls
\* of prisma resolve.
RouteMessage(agent, lookupOk, logOk) ==
    IF ~lookupOk THEN [routed |-> "throws", logged |-> FALSE]
    ELSE IF agent = "none" THEN [routed |-> "null", logged |-> FALSE]
    ELSE IF agent = "inactive" THEN [routed |-> "null", logged |-> FALSE]
    ELSE IF ~logOk THEN [routed |-> "throws", logged |-> FALSE]
    ELSE [routed |-> "message", logged |-> TRUE]

\* processMessage: routeMessage, generateAgentResponse, and the catch
\* block; respondOk says whether generateAgentResponse resolves.
ProcessMessage(p, lookupOk, logOk, respondOk) ==
    LET route == RouteMessage(router.agents[p], lookupOk, logOk)
        called == [NoMessageCall EXCEPT !.op = "processMessage", !.user = p,
                                        !.agent = router.agents[p],
                                        !.lookedUp = lookupOk,
                                        !.logged = route.logged]
    IN /\ Len(router.logs) < MaxLogs
       /\ router' =
             [router EXCEPT
                !.logs = IF route.logged THEN Append(@, p) ELSE @,
                !.call =
                    IF route.routed = "throws"
                    THEN [called EXCEPT !.error = RoutingException]
                    ELSE IF route.routed = "null"
                    THEN [called EXCEPT !.error = NoActiveAgent]
                    ELSE IF ~respondOk
                    THEN [called EXCEPT !.error = RoutingException]
                    ELSE [called EXCEPT !.generated = TRUE, !.success = TRUE,
                                        !.response = TRUE]]
       /\ UNCHANGED <<backend, documents, chunkTable, extIndex, last, ragConfig,
                      retrieval, job, chunker, embedder, pipeline, truncation,
                      component>>

----------------------------------------------------------------------------
(* Specifications *)

DefaultRagConfig ==
    [retrievalTopK |-> 5, similarityThreshold |-> 70, rerankEnabled |-> FALSE,
     rerankModel |-> Undefined, includeCitations |-> TRUE,
     citationFormat |-> "numbered"]

IdleJobs == [d \in DocIds |-> IdleJob]

\* The store under arbitrary calls, over documents whose ingestion has
\* completed.
StoreInit ==
    /\ backend \in Backends
    /\ documents = [d \in DocIds |-> DocumentRow(Owner[d], "COMPLETED", 0)]
    /\ chunkTable = EmptyRows
    /\ extIndex = EmptyRows
    /\ last = NoCall
    /\ ragConfig = DefaultRagConfig
    /\ retrieval = NoRetrieval
    /\ job = IdleJobs
    /\ chunker = NoChunking
    /\ embedder = NoEmbedding
    /\ pipeline = NoQuery
    /\ truncation = NoTruncation
    /\ component = NoComponent
    /\ router = NoRouter

StoreNext ==
    \/ \E records \in RecordBatches : StoreUpsert(records)
    \/ \E q \in Vecs, topK \in 1..MaxTopK, filter \in Filters :
          StoreSearch(q, topK, filter)
    \/ \E d \in DocIds : StoreDelete(d)
    \/ StoreGetStats

SpecStore == StoreInit /\ [][StoreNext]_vars

\* One call of Retriever.retrieve, on a Retriever constructed with any
\* configuration, against a vector store that answers anything.
RetrieveInit ==
    /\ backend = "internal"
    /\ documents = [d \in DocIds |-> NoDocumentRow]
    /\ chunkTable = EmptyRows
    /\ extIndex = EmptyRows
    /\ last = NoCall
    /\ ragConfig \in RagConfigs
    /\ retrieval = NoRetrieval
    /\ job = IdleJobs
    /\ chunker = NoChunking
    /\ embedder = NoEmbedding
    /\ pipeline = NoQuery
    /\ truncation = NoTruncation
    /\ component = NoComponent
    /\ router = NoRouter

RetrieveNext ==
    /\ retrieval.op = "none"
    /\ \E options \in RetrievalOptions, embedOk \in BOOLEAN,
          out \in StoreAnswers :
          Retrieve(options, embedOk, out)

SpecRetrieve == RetrieveInit /\ [][RetrieveNext]_vars

\* The ingestion of one document into an empty store of any backend, where
\* every call of the embedding provider, of prisma and of the vector store
\* may reject.
IngestInit ==
    /\ backend \in Backends
    /\ documents = [d \in DocIds |-> NoDocumentRow]
    /\ chunkTable = EmptyRows
    /\ extIndex = EmptyRows
    /\ last = NoCall
    /\ ragConfig = DefaultRagConfig
    /\ retrieval = NoRetrieval
    /\ job = IdleJobs
    /\ chunker = NoChunking
    /\ embedder = NoEmbedding
    /\ pipeline = NoQuery
    /\ truncation = NoTruncation
    /\ component = NoComponent
    /\ router = NoRouter

IngestNext ==
    \/ \E d \in DocIds, n \in ChunkCounts : IngestDocument(d, Owner[d], n)
    \/ \E d \in DocIds : IngestRejected(d)
    \/ \E d \in DocIds, ok \in BOOLEAN : FailEmpty(d, ok)
    \/ \E d \in DocIds, ok \in BOOLEAN : EmbedBatch(d, ok)
    \/ \E d \in DocIds, ok \in BOOLEAN : UpdateProgress(d, ok)
    \/ \E d \in DocIds, ok \in BOOLEAN : UpsertVectors(d, ok)
    \/ \E d \in DocIds, ok \in BOOLEAN : SaveChunks(d, ok)
    \/ \E d \in DocIds, ok \in BOOLEAN : CompleteDocument(d, ok)
    \/ \E d \in DocIds, ok \in BOOLEAN : CatchError(d, ok)

SpecIngest == IngestInit /\ [][IngestNext]_vars

\* The service over the life of one document: its ingestion and then any
\* calls of reprocessDocument and deleteDocument, one call at a time.
LifecycleDocs == {"d1"}

LifecycleNext ==
    \/ \E d \in LifecycleDocs, n \in ChunkCounts : IngestDocument(d, Owner[d], n)
    \/ \E d \in LifecycleDocs : IngestRejected(d)
    \/ \E d \in LifecycleDocs, ok \in BOOLEAN :
          \/ FailEmpty(d, ok)
          \/ EmbedBatch(d, ok)
          \/ UpdateProgress(d, ok)
          \/ UpsertVectors(d, ok)
          \/ SaveChunks(d, ok)
          \/ CompleteDocument(d, ok)
          \/ CatchError(d, ok)
    \/ \E d \in LifecycleDocs, found \in {"rejected", "missing", "found"},
          n \in ChunkCounts : ReprocessDocument(d, found, n)
    \/ \E d \in LifecycleDocs, ok \in BOOLEAN :
          \/ ReprocessDeleteVectors(d, ok)
          \/ ReprocessDeleteChunks(d, ok)
          \/ DeleteDocument(d, ok)
          \/ DeleteChunks(d, ok)
          \/ DeleteDocumentRow(d, ok)

SpecLifecycle == IngestInit /\ [][LifecycleNext]_vars

\* One call of truncateContext on any context and budget.
TruncateInit ==
    /\ backend = "internal"
    /\ documents = [d \in DocIds |-> NoDocumentRow]
    /\ chunkTable = EmptyRows
    /\ extIndex = EmptyRows
    /\ last = NoCall
    /\ ragConfig = DefaultRagConfig
    /\ retrieval = NoRetrieval
    /\ job = IdleJobs
    /\ chunker = NoChunking
    /\ embedder = NoEmbedding
    /\ pipeline = NoQuery
    /\ truncation = NoTruncation
    /\ component = NoComponent
    /\ router = NoRouter

TruncateNext ==
    /\ truncation.op = "none"
    /\ \E context \in Contexts, maxTokens \in 0..MaxTruncTokens :
          Truncate(context, maxTokens)

SpecTruncate == TruncateInit /\ [][TruncateNext]_vars

\* A provider or a store is built, by the factory or by its constructor,
\* initialized or not, and called.
ComponentInit ==
    /\ backend = "internal"
    /\ documents = [d \in DocIds |-> NoDocumentRow]
    /\ chunkTable = EmptyRows
    /\ extIndex = EmptyRows
    /\ last = NoCall
    /\ ragConfig = DefaultRagConfig
    /\ retrieval = NoRetrieval
    /\ job = IdleJobs
    /\ chunker = NoChunking
    /\ embedder = NoEmbedding
    /\ pipeline = NoQuery
    /\ truncation = NoTruncation
    /\ component = NoComponent
    /\ router = NoRouter

ComponentNext ==
    \/ \E provider \in ProviderNames, apiKey \in BOOLEAN :
          CreateEmbeddingProvider(provider, apiKey)
    \/ NewLocalEmbeddingProvider
    \/ \E provider \in StoreNames, prisma \in BOOLEAN :
          CreateVectorStore(provider, prisma)
    \/ \E name \in ExternalStores, apiKey \in BOOLEAN :
          NewExternalVectorStore(name, apiKey)
    \/ \E installed \in BOOLEAN : InitializeStore(installed)
    \/ \E call \in ProviderCalls \cup StoreCalls : CallComponent(call)

SpecComponent == ComponentInit /\ [][ComponentNext]_vars

\* The message router over any registered agents.
RouterInit ==
    /\ backend = "internal"
    /\ documents = [d \in DocIds |-> NoDocumentRow]
    /\ chunkTable = EmptyRows
    /\ extIndex = EmptyRows
    /\ last = NoCall
    /\ ragConfig = DefaultRagConfig
    /\ retrieval = NoRetrieval
    /\ job = IdleJobs
    /\ chunker = NoChunking
    /\ embedder = NoEmbedding
    /\ pipeline = NoQuery
    /\ truncation = NoTruncation
    /\ component = NoComponent
    /\ router \in [agents : [PlatformUsers -> AgentStates], logs : {<<>>},
                 call : {NoMessageCall}]

RouterNext ==
    \/ \E p \in PlatformUsers, default \in {"active", "inactive"} :
          RegisterUserAgent(p, default)
    \/ \E p \in PlatformUsers, lookupOk \in BOOLEAN, logOk \in BOOLEAN,
          respondOk \in BOOLEAN :
          ProcessMessage(p, lookupOk, logOk, respondOk)

SpecRouter == RouterInit /\ [][RouterNext]_vars

\* Searches on the internal store interleaved with the ingestion and the
\* reprocessing of one document of a few chunks.
SearchedChunkCounts == {0, 1, 2}

SearchMeanwhileInit ==
    /\ IngestInit
    /\ backend = "internal"

SearchMeanwhileNext ==
    \/ \E d \in LifecycleDocs, n \in SearchedChunkCounts :
          IngestDocument(d, Owner[d], n)
    \/ \E d \in LifecycleDocs, ok \in BOOLEAN :
          \/ FailEmpty(d, ok)
          \/ EmbedBatch(d, ok)
          \/ UpdateProgress(d, ok)
          \/ UpsertVectors(d, ok)
          \/ SaveChunks(d, ok)
          \/ CompleteDocument(d, ok)
          \/ CatchError(d, ok)
    \/ \E d \in LifecycleDocs, found \in {"rejected", "missing", "found"},
          n \in SearchedChunkCounts : ReprocessDocument(d, found, n)
    \/ \E d \in LifecycleDocs, ok \in BOOLEAN :
          \/ ReprocessDeleteVectors(d, ok)
          \/ ReprocessDeleteChunks(d, ok)
    \/ \E q \in Vecs, topK \in 1..MaxTopK, filter \in Filters :
          StoreSearch(q, topK, filter)

SpecSearchMeanwhile == SearchMeanwhileInit /\ [][SearchMeanwhileNext]_vars

\* Ingestions of the two documents interleaved at their await points.  The
\* documents have no chunk, one chunk, or one batch and one chunk more.
MeanwhileChunkCounts == {0, 1, BatchSize + 1}

MeanwhileNext ==
    \/ \E d \in DocIds, n \in MeanwhileChunkCounts :
          IngestDocumentMeanwhile(d, Owner[d], n)
    \/ \E d \in DocIds, ok \in BOOLEAN :
          \/ FailEmpty(d, ok)
          \/ EmbedBatch(d, ok)
          \/ UpdateProgress(d, ok)
          \/ UpsertVectors(d, ok)
          \/ SaveChunks(d, ok)
          \/ CompleteDocument(d, ok)
          \/ CatchError(d, ok)

SpecMeanwhile == IngestInit /\ [][MeanwhileNext]_vars

\* One call of chunkText on any text and options.
ChunkInit ==
    /\ backend = "internal"
    /\ documents = [d \in DocIds |-> NoDocumentRow]
    /\ chunkTable = EmptyRows
    /\ extIndex = EmptyRows
    /\ last = NoCall
    /\ ragConfig = DefaultRagConfig
    /\ retrieval = NoRetrieval
    /\ job = IdleJobs
    /\ chunker = NoChunking
    /\ embedder = NoEmbedding
    /\ pipeline = NoQuery
    /\ truncation = NoTruncation
    /\ component = NoComponent
    /\ router = NoRouter

ChunkNext ==
    /\ chunker.op = "none"
    /\ \E text \in ChunkTexts, options \in ChunkOptionSets :
          ChunkText(text, options)

SpecChunk == ChunkInit /\ [][ChunkNext]_vars

\* One call of embed on any provider and texts, request by request.
EmbedInit ==
    /\ backend = "internal"
    /\ documents = [d \in DocIds |-> NoDocumentRow]
    /\ chunkTable = EmptyRows
    /\ extIndex = EmptyRows
    /\ last = NoCall
    /\ ragConfig = DefaultRagConfig
    /\ retrieval = NoRetrieval
    /\ job = IdleJobs
    /\ chunker = NoChunking
    /\ embedder = NoEmbedding
    /\ pipeline = NoQuery
    /\ truncation = NoTruncation
    /\ component = NoComponent
    /\ router = NoRouter

EmbedNext ==
    \/ /\ embedder.pc = "idle"
       /\ \E provider \in Providers, maxBatchSize \in ProviderBatchSizes,
             texts \in TextLists :
             EmbedTexts(provider, maxBatchSize, texts)
    \/ \E ok \in BOOLEAN : EmbedSubBatch(ok)

SpecEmbed == EmbedInit /\ [][EmbedNext]_vars

\* One call of RagPipeline.query on a pipeline of any configuration.
QueryInit ==
    /\ backend = "internal"
    /\ documents = [d \in DocIds |-> NoDocumentRow]
    /\ chunkTable = EmptyRows
    /\ extIndex = EmptyRows
    /\ last = NoCall
    /\ ragConfig \in PipelineConfigs
    /\ retrieval = NoRetrieval
    /\ job = IdleJobs
    /\ chunker = NoChunking
    /\ embedder = NoEmbedding
    /\ pipeline = NoQuery
    /\ truncation = NoTruncation
    /\ component = NoComponent
    /\ router = NoRouter

QueryNext ==
    /\ pipeline.op = "none"
    /\ \E options \in QueryOptions, llm \in LlmOutcomes, embedOk \in BOOLEAN,
          out \in StoreAnswers :
          Query(options, llm, embedOk, out)

SpecQuery == QueryInit /\ [][QueryNext]_vars

----------------------------------------------------------------------------
(* Claims about the vector stores *)

\* A stored record satisfies a filter: its document is owned by the
\* filter's user and, when document ids are given, is one of them.
Satisfies(row, filter) ==
    /\ documents[row.documentId].userId = filter.userId
    /\ (filter.documentId.kind = "in" => row.documentId \in filter.documentId.ids)

\* C3: every result of VectorStore.search with filter {userId: u,
\* documentId in D} belongs to a document owned by u and, when D is not
\* empty, to a document of D, whichever backend is configured.
C3_SearchHonoursFilter ==
    (last.op = "search" /\ last.out.ok) =>
        \A i \in DOMAIN last.out.results :
            Satisfies(last.out.results[i], last.filter)

\* C6: after a record r with embedding e has been upserted, a search with
\* query embedding e and a filter r satisfies returns r, and no returned
\* result scores higher than r.  (Stated where topK leaves room for every
\* satisfying record that has the same embedding.)
C6_SelfSimilarity ==
    (last.op = "search" /\ last.out.ok) =>
        \A id \in DOMAIN Stored :
            LET same == { o \in DOMAIN Stored :
                            /\ Satisfies(Stored[o], last.filter)
                            /\ Embed(Stored[o].content) = last.queryEmbedding }
                res == last.out.results
            IN (id \in same /\ Cardinality(same) <= last.topK) =>
                  \E i \in DOMAIN res :
                      /\ res[i].id = id
                      /\ \A j \in DOMAIN res : res[j].score <= res[i].score

\* C7: after delete(d) on a store holding n records of d, every search
\* filtered to d returns nothing, getStats().totalVectors is n less than
\* before, and the records of the other documents are as they were.
C7_DeleteRemovesDocument ==
    last.op = "delete" =>
        LET d == last.documentId IN
        /\ \A q \in Vecs, topK \in 1..MaxTopK, u \in Users :
              \A out \in SearchOutcomes(q, topK,
                              [userId |-> u, documentId |-> InDocuments({d})]) :
                  out.ok => out.results = <<>>
        /\ TotalVectors
              = last.statsBefore - Cardinality(RecordsOf(last.before, d))
        /\ \A id \in DOMAIN last.before :
              last.before[id].documentId # d =>
                  id \in DOMAIN Stored /\ Stored[id] = last.before[id]

\* C8: upsert is create-or-replace per record id: after upsert(records),
\* applying the same upsert again leaves the store as it is, every record
\* of the call is stored under its id with the content and metadata given,
\* and totalVectors is the number of distinct ids stored.
C8_UpsertCreateOrReplace ==
    last.op = "upsert" =>
        /\ Upserted(last.records) = Stored
        /\ \A k \in DOMAIN last.records :
              LET r == last.records[k] IN
              /\ r.id \in DOMAIN Stored
              /\ Stored[r.id].content = r.content
              /\ Stored[r.id].metadata = r.metadata
        /\ TotalVectors = Cardinality(DOMAIN Stored)

\* The cosine similarity of a stored record to a query: the record's
\* embedding is that of its content.
ExactScore(row, queryEmbedding) ==
    CosineSimilarity(queryEmbedding, Embed(row.content))

\* C9: the internal store returns the topK records of highest cosine
\* similarity among all records matching the filter, each with that
\* similarity as its score, in descending order of score.
C9_InternalSearchExactTopK ==
    (backend = "internal" /\ last.op = "search" /\ last.out.ok) =>
        LET res == last.out.results
            q == last.queryEmbedding
            matching == { id \in DOMAIN chunkTable :
                            InternalWhere(documents, chunkTable, id, last.filter) }
            returned == { res[i].id : i \in DOMAIN res }
        IN /\ Len(res) = Min(last.topK, Cardinality(matching))
           /\ returned \subseteq matching
           /\ \A i, j \in DOMAIN res : i # j => res[i].id # res[j].id
           /\ \A i \in DOMAIN res :
                 res[i].score = ExactScore(chunkTable[res[i].id], q)
           /\ \A i, j \in DOMAIN res : i < j => res[i].score >= res[j].score
           /\ \A i \in DOMAIN res : \A o \in matching \ returned :
                 ExactScore(chunkTable[o], q) <= res[i].score

----------------------------------------------------------------------------
(* Claims about Retriever.retrieve *)

Retrieved == retrieval.op = "retrieve" /\ retrieval.useRag /\ ~retrieval.threw

\* C4: every call of retrieve with useRag = true returns at most topK
\* chunks, each with a score of at least similarityThreshold, whatever the
\* store answered.
C4_RetrieveBounded ==
    Retrieved =>
        /\ Len(retrieval.chunks) <= retrieval.topK
        /\ \A i \in DOMAIN retrieval.chunks :
              retrieval.chunks[i].score >= retrieval.similarityThreshold

\* The first k results of an answer whose score is at least t, in the
\* order of the answer.
FirstAbove(answer, t, k) ==
    LET Q == { p \in DOMAIN answer : answer[p].score >= t }
        m == IF k <= 0 THEN 0 ELSE Min(k, Cardinality(Q))
        pos == [i \in 1..m |->
                   CHOOSE p \in Q : Cardinality({ q \in Q : q <= p }) = i]
    IN [i \in 1..m |-> [id |-> answer[pos[i]].id, score |-> answer[pos[i]].score]]

\* C5: retrieve asks the store for topK * 2 candidates and returns the
\* first topK of those with score >= similarityThreshold, in the order of
\* the store's answer, with or without the rerank slot; on the scores
\* 0.9, 0.75, 0.5 with threshold 0.7 it returns the first two.
C5_RetrieveFirstTopK ==
    Retrieved =>
        /\ retrieval.requested = retrieval.topK * 2
        /\ retrieval.chunks
              = FirstAbove(retrieval.answer, retrieval.similarityThreshold,
                           retrieval.topK)
        /\ ( /\ [i \in DOMAIN retrieval.answer |-> retrieval.answer[i].score]
                    = <<90, 75, 50>>
             /\ retrieval.similarityThreshold = 70
             /\ retrieval.topK >= 2 )
           => [i \in DOMAIN retrieval.chunks |-> retrieval.chunks[i].id] = <<1, 2>>

\* Both statements hold of the calls whose topK is not negative.
RetrieveBoundedForNaturalTopK == retrieval.topK >= 0 => C4_RetrieveBounded
RetrieveFirstTopKForNaturalTopK == retrieval.topK >= 0 => C5_RetrieveFirstTopK

----------------------------------------------------------------------------
(* Claims about ingestion *)

\* C1: a finished ingestion returns success when no embedding batch
\* failed, partial when some batch failed and at least one chunk was
\* embedded, and failed when parsing failed or no chunk was produced or
\* embedded, in which case the document is marked FAILED.  (Stated of the
\* ingestions in which no call of prisma or of the vector store rejected.)
C1_FinalStatus ==
    \A d \in DocIds :
        LET j == job[d]
            embedded == Len(j.allEmbeddings)
        IN (j.pc = "done" /\ ~j.rejected) =>
            /\ (~j.parsed \/ j.n = 0 \/ embedded = 0) =>
                  /\ j.result.status = "failed"
                  /\ documents[d].exists => documents[d].status = "FAILED"
            /\ (j.parsed /\ j.n > 0 /\ j.failed = {}) =>
                  j.result.status = "success"
            /\ (j.parsed /\ j.failed # {} /\ embedded > 0) =>
                  j.result.status = "partial"

\* C2: in an ingestion of n > 0 chunks in which no call of prisma or of
\* the vector store rejects, the batches 1..ceil(n/100) are each handed to
\* the embedding provider once, in order, whichever of them fail; errors
\* holds one entry per failed batch, naming it, and nothing else; and the
\* vector store holds the record of every chunk of every batch that did
\* not fail.
C2_BatchFailureDoesNotStop ==
    \A d \in DocIds :
        LET j == job[d] IN
        (j.pc = "done" /\ j.parsed /\ j.n > 0 /\ ~j.rejected) =>
            /\ j.attempts = [k \in 1..NumBatches(j.n) |-> k]
            /\ \A k \in 1..NumBatches(j.n) :
                  Cardinality({ e \in DOMAIN j.result.errors :
                                  j.result.errors[e] = EmbeddingBatchError(k) })
                      = IF k \in j.failed THEN 1 ELSE 0
            /\ Len(j.result.errors) = Cardinality(j.failed)
            /\ \A c \in 0..(j.n - 1) :
                  BatchNumber(c) \notin j.failed =>
                      /\ MakeId(d, c) \in DOMAIN Stored
                      /\ Stored[MakeId(d, c)].documentId = d
                      /\ Stored[MakeId(d, c)].chunkIndex = c
                      /\ Stored[MakeId(d, c)].content = ChunkContent(c)

\* An ingestion of 101 chunks whose first batch failed and whose second
\* batch, of one chunk, was embedded and stored.
C2_Witness ==
    \E d \in DocIds :
        /\ job[d].pc = "done" /\ ~job[d].rejected
        /\ job[d].n = BatchSize + 1
        /\ job[d].failed = {1}
        /\ job[d].attempts = <<1, 2>>
        /\ job[d].result.status = "partial"
        /\ MakeId(d, BatchSize) \in DOMAIN Stored

----------------------------------------------------------------------------
(* Claims about the chunker *)

\* C10: the chunks chunkText returns, after the merge pass, have the
\* indexes 0, 1, ..., n-1 in order.
C10_IndicesContiguous ==
    (chunker.op = "chunkText" /\ chunker.returned) =>
        \A k \in DOMAIN chunker.chunks : chunker.chunks[k].index = k - 1

\* A call of chunkText that returned.
ChunksGiven == chunker.op = "chunkText" /\ chunker.returned

\* C11: in the chunks chunkText returns, startChar and endChar never
\* decrease from one chunk to the next, and no chunk ends before it starts.
C11_OffsetsNonDecreasing ==
    ChunksGiven =>
        /\ \A k \in 1..(Len(chunker.chunks) - 1) :
              /\ chunker.chunks[k].startChar <= chunker.chunks[k + 1].startChar
              /\ chunker.chunks[k].endChar <= chunker.chunks[k + 1].endChar
        /\ \A k \in DOMAIN chunker.chunks :
              chunker.chunks[k].startChar <= chunker.chunks[k].endChar

\* The part of C11 the code keeps: startChar never decreases, and no chunk
\* ends before it starts.
StartCharNonDecreasing ==
    ChunksGiven =>
        /\ \A k \in 1..(Len(chunker.chunks) - 1) :
              chunker.chunks[k].startChar <= chunker.chunks[k + 1].startChar
        /\ \A k \in DOMAIN chunker.chunks :
              chunker.chunks[k].startChar <= chunker.chunks[k].endChar

\* C12: after the merge pass the chunks below minChunkSize have all been
\* merged away: either only one chunk is left, or no chunk, the last one
\* included, has content shorter than minChunkSize.
C12_NoSmallChunkRemains ==
    ChunksGiven =>
        \/ Len(chunker.chunks) <= 1
        \/ \A k \in DOMAIN chunker.chunks :
              Len(chunker.chunks[k].content) >= chunker.config.minChunkSize

\* The part of C12 the code keeps: every chunk but the last has at least
\* minChunkSize characters.
AllButLastReachMinChunkSize ==
    ChunksGiven =>
        \A k \in 1..(Len(chunker.chunks) - 1) :
            Len(chunker.chunks[k].content) >= chunker.config.minChunkSize

\* C13: fixed-size chunking returns for every text when chunkSize >= 1 and
\* chunkOverlap >= 0, called directly or by sentence chunking with the
\* halved chunkSize.
C13_FixedSizeTerminates ==
    (/\ chunker.op = "chunkText"
     /\ chunker.config.strategy \in {"fixed", "sentence"}
     /\ chunker.config.chunkSize >= 1
     /\ chunker.config.chunkOverlap >= 0) => chunker.returned

\* What the code keeps of C13: the window loop ends whenever chunkOverlap
\* differs from the chunkSize the loop runs with.
FixedSizeTerminatesUnlessOverlapIsSize ==
    (/\ chunker.op = "chunkText"
     /\ chunker.config.strategy = "fixed"
     /\ chunker.config.chunkOverlap # chunker.config.chunkSize) =>
        chunker.returned

----------------------------------------------------------------------------
(* Claims about the embedding providers *)

CeilDiv(n, m) == (n + m - 1) \div m

\* C14: a call of embed on n texts that returns has made ceil(n/m)
\* requests, for m the provider's maxBatchSize, over consecutive slices of
\* the texts (m, ..., m and the remainder), and returns n results of which
\* result i is the embedding of text i.
C14_EmbedBatchesInOrder ==
    embedder.pc = "returned" =>
        LET n == Len(embedder.texts)
            m == embedder.maxBatchSize
        IN /\ Len(embedder.calls) = CeilDiv(n, m)
           /\ \A k \in DOMAIN embedder.calls :
                 /\ embedder.calls[k].start = (k - 1) * m
                 /\ embedder.calls[k].size = Min(m, n - (k - 1) * m)
           /\ Len(embedder.results) = n
           /\ \A i \in 1..n :
                 embedder.results[i].embedding = Embed(embedder.texts[i])

\* Five texts, not all alike, embedded by a provider of maxBatchSize 2 in
\* requests of 2, 2 and 1 texts.
C14_Witness ==
    /\ embedder.pc = "returned"
    /\ Len(embedder.texts) = 5
    /\ Cardinality(Range(embedder.texts)) > 1
    /\ embedder.maxBatchSize = 2
    /\ [k \in DOMAIN embedder.calls |-> embedder.calls[k].size] = <<2, 2, 1>>
    /\ Len(embedder.results) = 5

\* C15: when a request of embed has failed, the call has still made every
\* request of the input and returns to its caller (the results of the
\* requests that succeeded, with the failures listed) instead of rejecting.
C15_SubBatchFailureKeepsSiblings ==
    (/\ embedder.pc \in {"returned", "rejected"}
     /\ \E k \in DOMAIN embedder.calls : ~embedder.calls[k].ok) =>
        /\ Len(embedder.calls) =
              CeilDiv(Len(embedder.texts), embedder.maxBatchSize)
        /\ embedder.pc = "returned"

----------------------------------------------------------------------------
(* Claims about RagPipeline.query *)

\* hyde or subquestion was asked for and no llmGenerate was supplied.
FallbackRequested ==
    /\ pipeline.op = "query"
    /\ pipeline.options.transformQuery \in {"hyde", "subquestion"}
    /\ ~pipeline.options.llmGenerate

\* What the same call gives when transformQuery is "original".
PlainResult ==
    QueryOutcome([pipeline.options EXCEPT !.transformQuery = "original"],
                 [ok |-> TRUE, text |-> <<>>], TRUE,
                 Returned(pipeline.retrieval.answer)).result

\* C16: a query that asks for hyde or subquestion without llmGenerate
\* retrieves with the unmodified query, and its result tells that the
\* fallback occurred: it differs from the result of the same query asked
\* with transformQuery "original".
C16_FallbackIsFlagged ==
    (FallbackRequested /\ ~pipeline.threw) =>
        /\ pipeline.llmCalls = 0
        /\ pipeline.result.transformedQuery = pipeline.options.query
        /\ pipeline.retrieval.query = pipeline.options.query
        /\ pipeline.result # PlainResult

\* The part of C16 the code keeps: the fallback retrieves with the
\* unmodified query and calls no generation.
FallbackUsesOriginalQuery ==
    (FallbackRequested /\ ~pipeline.threw) =>
        /\ pipeline.llmCalls = 0
        /\ pipeline.result.transformedQuery = pipeline.options.query
        /\ pipeline.retrieval.query = pipeline.options.query

\* C17: when embedding the query or the search of the vector store fails,
\* query does not reject: it returns a RagContext with an empty context and
\* no citations.
C17_QueryToleratesRetrievalFailure ==
    (pipeline.op = "query" /\ pipeline.retrieval.threw) =>
        /\ ~pipeline.threw
        /\ pipeline.result.ragContext.context = <<>>
        /\ pipeline.result.ragContext.citations = <<>>

----------------------------------------------------------------------------
(* Claims about reprocessDocument, deleteDocument and the document status *)

\* The ids of the records processDocument has built for document d.
NewRecords(d) ==
    { MakeId(d, job[d].allEmbeddings[k]) : k \in DOMAIN job[d].allEmbeddings }

\* The step in which reprocessDocument(d) is called.
ReprocessCalled(d) ==
    /\ job[d].pc \in {"idle", "done"}
    /\ job'[d] # job[d]
    /\ job'[d].op = "reprocess"

\* C18: reprocessDocument(d) writes no record before it has deleted every
\* record of d from the vector store and from the chunk table, so that
\* when it returns the two hold for d exactly the records of the new run,
\* also when the new run has fewer chunks; called for a document that is
\* missing or has no content it returns failed and deletes nothing.
C18_ReprocessDeletesBeforeWriting ==
    [][\A d \in DocIds :
          /\ (job[d].op = "reprocess"
                 /\ job[d].pc \in {"reprocess-vectors", "reprocess-chunks"}) =>
                /\ DOMAIN Stored' \subseteq DOMAIN Stored
                /\ DOMAIN chunkTable' \subseteq DOMAIN chunkTable
                /\ job'[d].pc \in {"embed", "empty"} => HeldFor(d)' = {}
          /\ (job'[d].op = "reprocess" /\ job'[d].pc = "done"
                 /\ job[d].pc \notin {"idle", "done"}
                 /\ ~job'[d].threw
                 /\ job'[d].result.status \in {"success", "partial"}) =>
                /\ RecordsOf(Stored', d) = NewRecords(d)'
                /\ RecordsOf(chunkTable', d) = NewRecords(d)'
          /\ (ReprocessCalled(d) /\ ~job'[d].threw
                 /\ (~documents[d].exists \/ job'[d].pc = "done")) =>
                /\ job'[d].pc = "done"
                /\ job'[d].result.status = "failed"
                /\ UNCHANGED <<documents, chunkTable, extIndex>>
      ]_vars

\* A document of 101 chunks reprocessed into one chunk: the stores hold
\* the one new record and nothing of the previous run.
C18_Witness ==
    \E d \in DocIds :
        /\ job[d].op = "reprocess" /\ job[d].pc = "done" /\ ~job[d].threw
        /\ job[d].result.status = "success"
        /\ job[d].n = 1
        /\ MakeId(d, BatchSize) \in job[d].previous
        /\ backend # "internal"
        /\ HeldFor(d) = {MakeId(d, 0)}

\* C19: when deleteDocument(d) has returned, no vector record, no chunk
\* row and no document row of d is left; when one of its steps has failed
\* it rejects, and no record that both storages held is then gone from one
\* of them and still in the other.
C19_DeleteLeavesNoOrphans ==
    \A d \in DocIds :
        (job[d].op = "delete" /\ job[d].pc = "done") =>
            IF job[d].threw
            THEN \A id \in job[d].previous :
                    id \in DOMAIN Stored <=> id \in DOMAIN chunkTable
            ELSE HeldFor(d) = {} /\ ~documents[d].exists

\* The part of C19 the code keeps: a deleteDocument that returns has
\* removed everything of d.
DeleteReturnedRemovesAll ==
    \A d \in DocIds :
        (job[d].op = "delete" /\ job[d].pc = "done" /\ ~job[d].threw) =>
            HeldFor(d) = {} /\ ~documents[d].exists

\* A run of processDocument for d ends in this step.
RunEnds(d) ==
    /\ job[d].pc \notin {"idle", "done"}
    /\ job'[d].pc = "done"
    /\ job'[d].op \in {"ingest", "reprocess"}

\* C20: the status of a document only moves forward, from processing to
\* one of completed, failed and partial, and back only from failed; it
\* becomes completed only when every batch has been attempted and the
\* records upserted; and a run that ends with failed batches leaves it
\* partial, with the records of the embedded chunks stored.
C20_StatusMovesForward ==
    [][\A d \in DocIds :
          /\ (documents[d].exists /\ documents'[d].exists
                 /\ documents'[d].status # documents[d].status) =>
                \/ /\ documents[d].status = "PROCESSING"
                   /\ documents'[d].status \in {"COMPLETED", "FAILED", "PARTIAL"}
                \/ documents[d].status = "FAILED"
          /\ (documents'[d].exists /\ documents'[d].status = "COMPLETED"
                 /\ documents[d].status # "COMPLETED") =>
                /\ Len(job[d].attempts) = NumBatches(job[d].n)
                /\ NewRecords(d) \subseteq DOMAIN Stored
                /\ job[d].failed = {}
          /\ (RunEnds(d) /\ ~job'[d].rejected /\ job'[d].failed # {}) =>
                /\ documents'[d].status = "PARTIAL"
                /\ NewRecords(d)' \subseteq DOMAIN Stored'
      ]_vars

\* The part of C20 the code keeps: the status becomes COMPLETED only when
\* every batch has been attempted and the records upserted and saved, and
\* a run that ends with failed batches has stored the records of the
\* embedded chunks; during an ingestion the status leaves PROCESSING only
\* for COMPLETED or FAILED.
CompletedAfterAllBatches ==
    [][\A d \in DocIds :
          /\ (documents'[d].exists /\ documents'[d].status = "COMPLETED"
                 /\ documents[d].status # "COMPLETED") =>
                /\ Len(job[d].attempts) = NumBatches(job[d].n)
                /\ NewRecords(d) \subseteq DOMAIN Stored
                /\ NewRecords(d) \subseteq DOMAIN chunkTable
          /\ (RunEnds(d) /\ ~job'[d].rejected /\ job'[d].failed # {}) =>
                NewRecords(d)' \subseteq DOMAIN Stored'
          /\ (job[d].op = "ingest" /\ documents[d].exists
                 /\ documents'[d].status # documents[d].status) =>
                /\ documents[d].status = "PROCESSING"
                /\ documents'[d].status \in {"COMPLETED", "FAILED"}
      ]_vars

\* Without the part on failed batches C20 still fails: reprocessDocument
\* takes a COMPLETED document to FAILED.
StatusLeavesOnlyProcessingOrFailed ==
    [][\A d \in DocIds :
          (documents[d].exists /\ documents'[d].exists
             /\ documents'[d].status # documents[d].status) =>
                documents[d].status \in {"PROCESSING", "FAILED"}
      ]_vars

----------------------------------------------------------------------------
(* Claims about interleaved ingestions *)

\* The rows of a table that belong to a document.
RowsOf(rows, documentId) ==
    [id \in RecordsOf(rows, documentId) |-> rows[id]]

\* What an ingestion of d that ran alone on empty stores and returned
\* success or partial leaves behind: for each chunk that was embedded, the
\* row and the object that the upsert of its record creates.
AloneRecord(id) == VectorRecordOf(id[1], id[2], ChunkContent(id[2]))
AloneChunkRows(d) ==
    [id \in NewRecords(d) |-> ChunkUpsertRow(EmptyRows, <<AloneRecord(id)>>, id)]
AloneIndex(d) ==
    IF backend = "internal" THEN EmptyRows
    ELSE [id \in NewRecords(d) |-> ExternalObject(backend, AloneRecord(id))]
AloneDocument(d) ==
    UpdateDocumentStatus([e \in DocIds |-> DocumentRow(Owner[e], "PROCESSING",
                                              Min(job[e].i, job[e].n))],
                         d, "COMPLETED", Len(job[d].allEmbeddings))[d]

\* C21: when ingestions of different documents interleave, every step of
\* one writes only records whose id is made of its own document id and
\* leaves the records, the row and the run of the other document as they
\* are, and a document whose ingestion returned success or partial has the
\* records and the status it has after being ingested alone.
C21_InterleavedIngestionsAreIndependent ==
    [][\A d \in DocIds :
          /\ job'[d] # job[d] =>
                /\ \A e \in DocIds \ {d} :
                      /\ job'[e] = job[e]
                      /\ documents'[e] = documents[e]
                      /\ RowsOf(chunkTable', e) = RowsOf(chunkTable, e)
                      /\ RowsOf(extIndex', e) = RowsOf(extIndex, e)
                /\ \A id \in (DOMAIN chunkTable' \ DOMAIN chunkTable)
                                \cup (DOMAIN extIndex' \ DOMAIN extIndex) :
                      \E index \in 0..(job[d].n - 1) : id = MakeId(d, index)
          /\ (job[d].pc # "done" /\ job'[d].pc = "done"
                 /\ job'[d].result.status \in {"success", "partial"}) =>
                /\ RowsOf(chunkTable', d) = AloneChunkRows(d)'
                /\ RowsOf(extIndex', d) = AloneIndex(d)'
                /\ documents'[d] = AloneDocument(d)'
      ]_vars

\* Both documents were ingested, the steps of the second lying between
\* the first embedding and the upsert of the first, and both hold their
\* 101 and 1 records.
C21_Witness ==
    /\ \A d \in DocIds : job[d].pc = "done" /\ job[d].result.status = "success"
    /\ job["d1"].n = BatchSize + 1 /\ job["d2"].n = 1
    /\ Cardinality(DOMAIN Stored) = BatchSize + 2

----------------------------------------------------------------------------
(* Claims about the context and the retrieval of a query *)

\* A call of query that resolved.
QueryReturned == pipeline.op = "query" /\ ~pipeline.threw

\* C22: the RagContext built from a RetrievalResult has as many citations
\* as the result has chunks, chunksUsed is that number, citation i and
\* block i of the context are those of chunk i of the ranked order (same
\* chunk id, same document id), and no chunk is cited twice.
C22_CitationsMatchChunks ==
    QueryReturned =>
        LET chunks == pipeline.retrieval.chunks
            built == pipeline.result.ragContext
        IN /\ Len(built.citations) = Len(chunks)
           /\ built.metadata.chunksUsed = Len(chunks)
           /\ Len(built.context) = Len(chunks)
           /\ \A i \in DOMAIN chunks :
                 /\ built.citations[i].chunkId = chunks[i].id
                 /\ built.citations[i].documentId = chunks[i].documentId
                 /\ built.context[i].chunkId = chunks[i].id
           /\ \A i, j \in DOMAIN built.citations :
                 built.citations[i].chunkId = built.citations[j].chunkId => i = j

\* A query whose store answered three results, of which the second is
\* below the threshold: the first and the third are cited, in this order.
C22_Witness ==
    /\ QueryReturned
    /\ Len(pipeline.retrieval.answer) = 3
    /\ Len(pipeline.result.ragContext.citations) = 2
    /\ pipeline.result.ragContext.citations[1].chunkId = 1
    /\ pipeline.result.ragContext.citations[2].chunkId = 3

\* C23: retrieve with useRag = false returns no chunk, totalChunks 0 and
\* the query it was given, and calls neither the embedding provider nor
\* the vector store.
C23_NoRagNoCalls ==
    (retrieval.op = "retrieve" /\ ~retrieval.useRag) =>
        /\ ~retrieval.threw
        /\ retrieval.chunks = <<>>
        /\ retrieval.totalChunks = 0
        /\ retrieval.resultQuery = retrieval.query
        /\ retrieval.embedCalls = 0
        /\ retrieval.searchCalls = 0

\* A call of retrieve with useRag = false.
C23_Witness ==
    /\ retrieval.op = "retrieve"
    /\ ~retrieval.useRag
    /\ retrieval.resultQuery = <<"q">>

\* The retrieval of a query searched the store, which answered, and no
\* result reaches the threshold.
NothingAboveThreshold ==
    /\ pipeline.op = "query"
    /\ pipeline.retrieval.op = "retrieve"
    /\ pipeline.retrieval.searchCalls = 1
    /\ ~pipeline.retrieval.threw
    /\ FilterByThreshold(pipeline.retrieval.answer,
                         pipeline.retrieval.similarityThreshold) = <<>>

\* C24: when no result of the search reaches the threshold, query still
\* resolves: the RagContext has an empty context, no citation, chunksUsed
\* 0, and its prompt holds the marker "No relevant context found."
C24_NoContextMarker ==
    NothingAboveThreshold =>
        /\ ~pipeline.threw
        /\ pipeline.result.ragContext.context = <<>>
        /\ pipeline.result.ragContext.citations = <<>>
        /\ pipeline.result.ragContext.metadata.chunksUsed = 0
        /\ pipeline.result.ragContext.prompt.noContextMarker

\* The store answered two results, both below the threshold.
C24_Witness ==
    /\ NothingAboveThreshold
    /\ Len(pipeline.retrieval.answer) = 2
    /\ pipeline.result.ragContext.prompt.noContextMarker

----------------------------------------------------------------------------
(* Claims about truncateContext *)

\* The positions, from 1, of the full stops and new lines among the first
\* budget characters of a text.
Boundaries(text, budget) ==
    { i \in 1..Min(budget, Len(text)) : text[i] \in {".", "\n"} }
LastOfSet(S) == CHOOSE i \in S : \A j \in S : j <= i

\* C25: truncateContext returns a text of at most maxTokens * 4
\* characters unchanged; a longer one it cuts just after the last full
\* stop or new line of the first maxTokens * 4 characters when that
\* character lies in the last fifth of the budget (its index, from 0, is
\* above 0.8 * budget), and else it returns the first maxTokens * 4
\* characters followed by "..."; the result starts with a prefix of the
\* text, followed by nothing or by "...".
C25_TruncateContext ==
    truncation.op = "truncateContext" =>
        LET text == truncation.context
            budget == truncation.maxTokens * 4
            result == truncation.result
            B == Boundaries(text, budget)
        IN /\ Len(text) <= budget => result = text
           /\ Len(text) > budget =>
                 IF B # {} /\ (LastOfSet(B) - 1) * 5 > budget * 4
                 THEN result = SubSeq(text, 1, LastOfSet(B))
                 ELSE result = SubSeq(text, 1, budget) \o Ellipsis
           /\ \E k \in 0..Len(text) :
                 result \in {SubSeq(text, 1, k), SubSeq(text, 1, k) \o Ellipsis}

\* A text of nine characters cut, for a budget of eight, after the new
\* line that is its eighth character, a full stop standing before it.
C25_Witness ==
    /\ truncation.op = "truncateContext"
    /\ truncation.maxTokens = 2
    /\ Len(truncation.context) = 9
    /\ truncation.context[8] = "\n"
    /\ truncation.context[3] = "."
    /\ truncation.result = SubSeq(truncation.context, 1, 8)

----------------------------------------------------------------------------
(* C26: configuration errors are raised when the component is built *)

\* The factory was asked for a component with no backend it can work
\* with: the credential is missing, the provider is the local one, whose
\* runtime is not available, or the name is not one the factory supports.
Unconfigured(c) ==
    /\ c.via = "factory"
    /\ \/ ~c.credential
       \/ c.kind = "provider" /\ c.name \notin {"openai", "cohere"}
       \/ c.kind = "store" /\ c.name \notin {"internal", Undefined}

\* C26: a missing credential, the unavailable local runtime or an
\* unsupported name makes building the provider or store fail with a
\* configuration error, and no provider or store that was built meets a
\* configuration or not-initialized error on a later embed, search, upsert
\* or delete.
C26_ConfigurationErrorsAtConstruction ==
    component.kind # "none" =>
        /\ Unconfigured(component) => component.built = "configuration-error"
        /\ component.built = "constructed" => component.error = "none"

\* The factories alone do as C26 says: what createEmbeddingProvider and
\* createVectorStore return has its credential and never meets such an
\* error on a later call.
FactoriesFailFast ==
    component.via = "factory" =>
        /\ Unconfigured(component) => component.built = "configuration-error"
        /\ component.built = "constructed" => component.error = "none"

\* A provider returned by createEmbeddingProvider has served two calls.
FactoryProviderServes ==
    /\ component.via = "factory"
    /\ component.kind = "provider"
    /\ component.built = "constructed"
    /\ component.calls = <<"embed", "embedSingle">>
    /\ component.error = "none"

----------------------------------------------------------------------------
(* C27: processMessage for a user without an active agent *)

\* C27: processMessage for a platform user with no agent, or with an
\* inactive one, returns success = false with the error "No active agent
\* ..." (or, when the lookup itself rejected, with that exception as the
\* error); it never throws, writes no message log and generates no
\* response.
C27_NoActiveAgentFails ==
    [][(router'.call # router.call \/ router'.logs # router.logs) =>
          LET c == router'.call
          IN /\ c.op = "processMessage"
             /\ ~c.threw
             /\ c.success = (c.error = Undefined)
             /\ c.agent # "active" =>
                   /\ ~c.success
                   /\ c.lookedUp => c.error = NoActiveAgent
                   /\ ~c.logged /\ router'.logs = router.logs
                   /\ ~c.generated /\ ~c.response]_vars

\* A message of a user whose agent is inactive was refused after a message
\* of another user was logged and answered.
C27_Witness ==
    /\ router.call.op = "processMessage"
    /\ router.call.agent = "inactive"
    /\ router.call.error = NoActiveAgent
    /\ ~router.call.success
    /\ Len(router.logs) = 1

----------------------------------------------------------------------------
(* C28: a failed ingestion and what it committed *)

\* The ids processDocument writes for the embeddings it has.
WrittenIds(d) ==
    { VectorRecords(d, job[d].allEmbeddings)[k].id :
        k \in DOMAIN job[d].allEmbeddings }

\* The run of processDocument for d was ended by vectorStore.upsert or by
\* the loop of prisma.chunk.upsert: a call rejected after the last batch
\* (the progress update leaves i below n when it rejects) and before every
\* chunk row was written (the final status update comes after them).
WriteRejected(d) ==
    /\ job[d].rejected
    /\ job[d].n > 0 /\ job[d].i >= job[d].n
    /\ RecordsOf(chunkTable, d) # WrittenIds(d)

\* C28: when ingestion ends with status failed and chunksCount 0 because
\* vectorStore.upsert or the chunk persistence rejected, and the document
\* is marked FAILED, neither the vector store nor the chunk table holds a
\* record of the document.
C28_FailedLeavesNothing ==
    \A d \in DocIds :
        (/\ job[d].pc = "done" /\ job[d].op = "ingest"
         /\ WriteRejected(d)
         /\ job[d].result.status = "failed" /\ job[d].result.chunksCount = 0
         /\ documents[d].status = "FAILED")
        => HeldFor(d) = {}

\* An ingestion that failed before anything was written leaves nothing:
\* the loop of batches writes to neither storage.
FailedBeforeWritingLeavesNothing ==
    \A d \in DocIds :
        (job[d].op = "ingest" /\ job[d].i < job[d].n) => HeldFor(d) = {}

----------------------------------------------------------------------------
(* C29: the persisted chunksCount and the returned one *)

\* processDocument has returned a result for d.
ProcessReturned(d) ==
    /\ job[d].pc = "done" /\ job[d].op = "ingest"
    /\ job[d].result # NoResult
    /\ job[d].result.documentId = d

\* C29: after processDocument returns, the chunksCount of the document row
\* equals the chunksCount of the result, whichever batches failed and on
\* the failed path.
C29_PersistedCountIsReturnedCount ==
    \A d \in DocIds :
        ProcessReturned(d) =>
            documents[d].chunksCount = job[d].result.chunksCount

\* The two counts agree when the run completed with an embedding, since
\* updateDocumentStatus then writes allEmbeddings.length over the progress.
CompletedWithEmbeddingsCountsAgree ==
    \A d \in DocIds :
        (ProcessReturned(d) /\ job[d].result.status # "failed"
            /\ job[d].allEmbeddings # <<>>)
        => /\ documents[d].chunksCount = job[d].result.chunksCount
           /\ documents[d].chunksCount = Len(job[d].allEmbeddings)

----------------------------------------------------------------------------
(* C30: what a search sees of a document that is being written *)

\* ingestDocument or reprocessDocument is running for d: it has started and
\* has not made its last status update.
Running(d) == job[d].pc \notin {"idle", "done"}

\* The documents a search made now on the configured store can return a
\* chunk of.
Searchable ==
    { out.results[i].documentId :
        <<out, i>> \in
            UNION { { <<o, k>> : k \in DOMAIN o.results } :
                    o \in UNION { SearchOutcomes(q, topK, filter) :
                                  <<q, topK, filter>> \in
                                      Vecs \X (1..MaxTopK) \X Filters } } }

\* C30: a search on the internal store never returns a chunk of a document
\* that is being ingested or reprocessed; it returns chunks only of
\* documents whose embeddingStatus is COMPLETED and whose chunk rows are
\* those of the embeddings of its last run.
C30_SearchSeesOnlyCompleteDocuments ==
    backend = "internal" =>
        \A d \in Searchable :
            /\ ~Running(d)
            /\ documents[d].embeddingStatus = "COMPLETED"
            /\ RecordsOf(chunkTable, d) = WrittenIds(d)

\* The first ingestion of a document is not seen: the document is
\* PROCESSING until its last status update.
FirstIngestionIsNotSeen ==
    backend = "internal" =>
        \A d \in Searchable : ~(job[d].op = "ingest" /\ Running(d))

\* The same for reprocessDocument between its deletes and its last status
\* update; reprocessDocument leaves the document COMPLETED, and TLC finds
\* this violated as soon as the new rows are written.
ReprocessingIsNotSeen ==
    backend = "internal" =>
        \A d \in Searchable :
            ~(job[d].op = "reprocess" /\ Running(d)
                /\ job[d].pc \notin {"reprocess-vectors", "reprocess-chunks"})

====
